---- MODULE Spec2Model ----
(***************************************************************************)
(* HeartSense cardiac monitoring simulator: the useCardiacDataSimulator    *)
(* hook (src/useCardiacDataSimulator.ts) as a state machine.               *)
(*                                                                         *)
(* Conventions of the model                                                *)
(*  - ECG amplitudes are the source's numbers times 100 (0.05 -> 5).       *)
(*  - Temperature is in tenths of a degree.                                *)
(*  - An SpO2 or respiration sample keeps its sequence index (time) only:  *)
(*    its amplitude is a sine-shaped float that no decision of the hook    *)
(*    reads.  respirationCyclePosition is left out for the same reason.    *)
(*  - Date.now() is the variable now (milliseconds).                       *)
(*  - crypto.randomUUID() is a fresh value built from the counter nextUid. *)
(*  - A patient id "PID<n>" is the number n.                               *)
(*  - Math.random() is an input: a draw is "lo" or "hi", the two ends of   *)
(*    the range asked for, and every draw one callback makes takes the     *)
(*    same end.                                                            *)
(*  - Every state update of the hook is a functional update; React applies *)
(*    them one at a time, in the order queued, each to the latest state.   *)
(*    One action of the model is one such update (or one batch queued by   *)
(*    one handler).                                                        *)
(***************************************************************************)
EXTENDS Integers, Sequences, FiniteSets, TLC

VARIABLES
    patients,            \* useState<Patient[]>: the registry, in order
    selectedPatientId,   \* useState<string | null>
    simulationDataMap,   \* useState<Map<string, PatientSpecificSimData>>
    timerPatients,       \* the patients array captured by the two interval closures
    organizationName,    \* the hook's argument: NoOrg until login
    storage,             \* localStorage item cardiacMonitorData_<org>
    aiInFlight,          \* runHeartSenseAIAnalysis calls not yet resolved
    now,                 \* Date.now()
    nextUid,             \* source of generateUniqueId()
    lastOp,              \* observer: the operation that made the last step
    budget               \* observer: how many steps of each kind were taken

vars == <<patients, selectedPatientId, simulationDataMap, timerPatients,
          organizationName, storage, aiInFlight, now, nextUid, lastOp, budget>>

(***************************************************************************)
(* Bounds of the exploration.                                              *)
(***************************************************************************)
\* logins of the organization
MaxLogins == 1
\* advances of the clock
MaxClockSteps == 1
\* firings of the ECG interval, waveform specification
MaxEcgTicks == 2
\* firings of the ECG interval, registry specification
MaxRegistryEcgTicks == 1
\* firings of the ECG interval, alerts specification
MaxAlertEcgTicks == 1
\* firings of the vitals interval
MaxVitalsTicks == 2
\* firings of the vitals interval, registry specification
MaxRegistryVitalsTicks == 1
\* calls of the simulator panel's operations
MaxUserOps == 2
\* calls of the operations, lead-off specification
MaxLeadOffOps == 4
\* firings of the vitals interval, lead-off specification
MaxLeadOffVitalsTicks == 1
\* calls of addPatient
MaxAdds == 1
\* calls of deletePatient
MaxDeletes == 1
\* calls of addPatient in the specification of the public operations
MaxApiAdds == 2
\* other calls of public operations in that specification
MaxApiCalls == 1
\* firings of the vitals interval in the specification of the rhythm
MaxRhythmVitalsTicks == 3
\* firings of the ECG interval in the specification of asystole
MaxAsystoleTicks == 28
\* calls of setPatientRhythm in the specification of asystole
MaxAsystoleOps == 1
\* Ticks and clock steps of the high-frequency loop in third-degree AV block:
\* the escape pattern takes 6 ticks, and a second of clock time makes the next
\* P-wave due.
MaxBlockEcgTicks == 8
MaxBlockClockSteps == 2
\* firings of the ECG interval after the login of a patient in asystole
MaxRecoveryEcgTicks == 4

(***************************************************************************)
(* constants.ts                                                            *)
(***************************************************************************)
SIMULATION_VITALS_INTERVAL_MS == 1000
SIMULATION_ECG_INTERVAL_MS == 25
BP_UPDATE_INTERVAL_MS == 5 * 60 * 1000
TEMP_UPDATE_INTERVAL_MS == 10 * 60 * 1000
RR_UPDATE_INTERVAL_MS == 2 * 60 * 1000
AUTO_LOG_VITALS_INTERVAL_SECONDS == 60
ECG_TIME_WINDOW_SECONDS == 10
MAX_ECG_DATA_POINTS == ECG_TIME_WINDOW_SECONDS * (1000 \div SIMULATION_ECG_INTERVAL_MS)
HEARTSENSE_AI_ANALYSIS_INTERVAL_MS == 10 * 60 * 1000
HEARTSENSE_LOGGED_VITALS_COUNT == 20
MAX_LOGGED_VITALS == 200

ECG_BASE_PATTERN == <<0,0,10,20,10,0,-10,50,150,-80,20,0,10,20,30,20,10,0,0,0>>
ECG_VT_PATTERN == <<50,100,50,0,-50,-100,-50,0,60,110,60,0,-60,-110,-60,0>>
ECG_VF_PATTERN == <<30,-20,50,-40,20,-10,40,-30,10,0,20,-20,30,-10,10,-30>>
ECG_TDP_PATTERN == <<50,100,-50,-120,30,80,-20,-90,10,50,-10,-50,60,110,-60,-130>>
ECG_THIRD_DEGREE_AV_BLOCK_PATTERN == <<-10,50,150,-80,20,0>>
ECG_P_WAVE_PATTERN == <<0,0,10,20,10,0,0,0>>
ECG_ASYSTOLE_PATTERN == <<0,0,0,0,0,0,0,0,0,0>>
ECG_AFIB_FIBRILLATORY_WAVE == <<0,5,-5,3,-3,6,-4,2,-2>>
ECG_AFLUTTER_PATTERN == <<0,20,40,20,0,-20,-40,-20, 0,20,40,20,0,-20,-40,-20,
                          0,10,80,150,-60,10,0, 0,0,0,0>>
ECG_SVT_PATTERN == <<0,0,50,150,-80,20,0,10,10,0,0>>
ECG_PACER_SPIKE_PATTERN == <<0,280,0>>
ECG_PACED_QRS_PATTERN == <<0,20,60,100,40,-30,-50,-20,0>>
ECG_SPO2_PULSE_PATTERN == <<0,40,80,100,70,50,30,15,0>>

\* RHYTHM_PARAMS: hrMin..hrMax is the range simulatedHR() draws from.
RHYTHM_PARAMS ==
    [ NSR |-> [basePattern |-> ECG_BASE_PATTERN, hrMin |-> 60, hrMax |-> 100,
               isLethal |-> FALSE, generatesQRS |-> TRUE, atrialRate |-> 0],
      VT |-> [basePattern |-> ECG_VT_PATTERN, hrMin |-> 180, hrMax |-> 180,
              isLethal |-> TRUE, generatesQRS |-> TRUE, atrialRate |-> 0],
      SINUS_TACHYCARDIA |-> [basePattern |-> ECG_BASE_PATTERN, hrMin |-> 101, hrMax |-> 150,
              isLethal |-> FALSE, generatesQRS |-> TRUE, atrialRate |-> 0],
      SINUS_BRADYCARDIA |-> [basePattern |-> ECG_BASE_PATTERN, hrMin |-> 40, hrMax |-> 59,
              isLethal |-> FALSE, generatesQRS |-> TRUE, atrialRate |-> 0],
      VENTRICULAR_FIBRILLATION |-> [basePattern |-> ECG_VF_PATTERN, hrMin |-> 300, hrMax |-> 300,
              isLethal |-> TRUE, generatesQRS |-> FALSE, atrialRate |-> 0],
      TORSADES_DE_POINTES |-> [basePattern |-> ECG_TDP_PATTERN, hrMin |-> 200, hrMax |-> 250,
              isLethal |-> TRUE, generatesQRS |-> TRUE, atrialRate |-> 0],
      FIRST_DEGREE_AV_BLOCK |-> [basePattern |-> ECG_BASE_PATTERN, hrMin |-> 60, hrMax |-> 100,
              isLethal |-> FALSE, generatesQRS |-> TRUE, atrialRate |-> 0],
      SECOND_DEGREE_AV_BLOCK_TYPE_I |-> [basePattern |-> ECG_BASE_PATTERN, hrMin |-> 50, hrMax |-> 90,
              isLethal |-> FALSE, generatesQRS |-> TRUE, atrialRate |-> 0],
      SECOND_DEGREE_AV_BLOCK_TYPE_II |-> [basePattern |-> ECG_BASE_PATTERN, hrMin |-> 40, hrMax |-> 70,
              isLethal |-> FALSE, generatesQRS |-> TRUE, atrialRate |-> 0],
      THIRD_DEGREE_AV_BLOCK |-> [basePattern |-> ECG_THIRD_DEGREE_AV_BLOCK_PATTERN, hrMin |-> 40, hrMax |-> 40,
              isLethal |-> FALSE, generatesQRS |-> TRUE, atrialRate |-> 70],
      ATRIAL_FIBRILLATION |-> [basePattern |-> ECG_AFIB_FIBRILLATORY_WAVE, hrMin |-> 70, hrMax |-> 160,
              isLethal |-> FALSE, generatesQRS |-> TRUE, atrialRate |-> 0],
      ATRIAL_FLUTTER |-> [basePattern |-> ECG_AFLUTTER_PATTERN, hrMin |-> 150, hrMax |-> 150,
              isLethal |-> FALSE, generatesQRS |-> TRUE, atrialRate |-> 0],
      SVT |-> [basePattern |-> ECG_SVT_PATTERN, hrMin |-> 150, hrMax |-> 220,
              isLethal |-> FALSE, generatesQRS |-> TRUE, atrialRate |-> 0],
      ASYSTOLE |-> [basePattern |-> ECG_ASYSTOLE_PATTERN, hrMin |-> 0, hrMax |-> 0,
              isLethal |-> TRUE, generatesQRS |-> FALSE, atrialRate |-> 0] ]

ALL_AVAILABLE_RHYTHMS == DOMAIN RHYTHM_PARAMS

\* The outcomes of Math.random() the model draws.
Draws == {"lo", "hi"}

generateRandomInRange(min, max, draw) == IF draw = "lo" THEN min ELSE max

simulatedHR(rhythm, draw) ==
    generateRandomInRange(RHYTHM_PARAMS[rhythm].hrMin, RHYTHM_PARAMS[rhythm].hrMax, draw)

\* An optional threshold that is not set (undefined in the source).
Undefined == 0 - 1

ALERT_THRESHOLDS ==
    [ HEART_RATE |-> [LOW_CRITICAL |-> 40, LOW_WARNING |-> 50,
                      HIGH_WARNING |-> 110, HIGH_CRITICAL |-> 130],
      SPO2 |-> [LOW_CRITICAL |-> 88, LOW_WARNING |-> 92,
                HIGH_WARNING |-> Undefined, HIGH_CRITICAL |-> Undefined] ]

NoOverrides == [lowCritical |-> Undefined, lowWarning |-> Undefined,
                highWarning |-> Undefined, highCritical |-> Undefined]

\* personalizedThresholds: undefined in every patient the hook creates.
NoPersonalizedThresholds == [heartRate |-> NoOverrides, spo2 |-> NoOverrides]

INITIAL_PATIENTS ==
    << [id |-> 123, activeRhythm |-> "NSR",
        pacerSettings |-> [mode |-> "Off", rate |-> 70],
        personalizedThresholds |-> NoPersonalizedThresholds, noiseSignatures |-> <<>>],
       [id |-> 124, activeRhythm |-> "NSR",
        pacerSettings |-> [mode |-> "Off", rate |-> 70],
        personalizedThresholds |-> NoPersonalizedThresholds, noiseSignatures |-> <<>>],
       [id |-> 125, activeRhythm |-> "ATRIAL_FIBRILLATION",
        pacerSettings |-> [mode |-> "Demand", rate |-> 60],
        personalizedThresholds |-> NoPersonalizedThresholds, noiseSignatures |-> <<>>] >>

INITIAL_HEARTSENSE_AI_STATE ==
    [riskScore |-> 0, riskLevel |-> "Pending", lastAnalyzedTimestamp |-> 0,
     isLoading |-> FALSE, error |-> FALSE]

\* getDefaultMetrics(hr): hr || RHYTHM_PARAMS.NSR.simulatedHR()
getDefaultMetrics(hr, draw) ==
    [heartRate |-> IF hr # 0 THEN hr ELSE simulatedHR("NSR", draw),
     bloodPressure |-> [systolic |-> 120, diastolic |-> 80],
     spo2 |-> 98, temperature |-> 370,
     respiratoryRate |-> generateRandomInRange(12, 18, draw)]

getInitialEcgData == [i \in 1..MAX_ECG_DATA_POINTS |-> [time |-> i - 1, value |-> 0]]
getInitialSpo2Data == [i \in 1..MAX_ECG_DATA_POINTS |-> [time |-> i - 1]]
getInitialRespData == [i \in 1..MAX_ECG_DATA_POINTS |-> [time |-> i - 1]]


(***************************************************************************)
(* createInitialPatientSimData (the fields some operation reads or writes) *)
(***************************************************************************)
\* nextRRIntervalPoints is a float in the source: (60 / rate) * pointsPerSecond
\* minus one per tick.  It is kept exactly as the fraction n/d; d = 0 is Infinity.
Infinity == [n |-> 1, d |-> 0]

createInitialPatientSimData(patient, draw) ==
    [metrics |-> getDefaultMetrics(simulatedHR(patient.activeRhythm, draw), draw),
     ecgData |-> getInitialEcgData,
     spo2WaveData |-> getInitialSpo2Data,
     respWaveData |-> getInitialRespData,
     alerts |-> <<>>,
     ecgPatternBuffer |-> <<>>,
     ecgBufferIndex |-> 0,
     ecgCurrentTime |-> 0,
     lastPWaveTime |-> 0,
     nextRRIntervalPoints |-> [n |-> 0, d |-> 1],
     acknowledgedAlertIds |-> {},
     loggedVitals |-> <<>>,
     lastBeatTimestamp |-> 0,
     heartSenseAIState |-> INITIAL_HEARTSENSE_AI_STATE,
     alarmFeedbackLog |-> <<>>,
     currentTargetHeartRate |-> simulatedHR(patient.activeRhythm, draw),
     lastBPUpdate |-> 0,
     lastTempUpdate |-> 0,
     lastRRUpdate |-> 0,
     isLeadOff |-> FALSE,
     spo2PulsePatternBuffer |-> <<>>,
     spo2PulseBufferIndex |-> 0,
     spo2NextPulseDue |-> FALSE]

(***************************************************************************)
(* HIGH-FREQUENCY LOOP, one patient                                        *)
(***************************************************************************)
pointsPerSecond == 1000 \div SIMULATION_ECG_INTERVAL_MS

\* A countdown that is finite for every rate.
rrIntervalPointsAlwaysFinite(newRate) ==
    [n |-> 60 * pointsPerSecond, d |-> IF newRate > 0 THEN newRate ELSE 1]

rrIntervalPoints(newRate) ==
    IF newRate > 0 THEN [n |-> 60 * pointsPerSecond, d |-> newRate] ELSE Infinity

rrNotPositive(x) == x.d # 0 /\ x.n <= 0

rrDecrement(x) == IF x.d = 0 THEN x ELSE [n |-> x.n - x.d, d |-> x.d]

\* [...buffer.slice(1), sample]
shiftInDropNone(buffer, sample) == Append(buffer, sample)

shiftIn(buffer, sample) == Append(Tail(buffer), sample)

\* The SpO2 pulse walk shared by both branches of the tick.
spo2Walk(sim, buffer, due) ==
    IF sim.spo2PulseBufferIndex < Len(buffer)
    THEN [index |-> sim.spo2PulseBufferIndex + 1, buffer |-> buffer, due |-> due]
    ELSE [index |-> 0, buffer |-> <<>>, due |-> FALSE]

\* The ECG value appended while the lead is off.
leadOffEcgValueFromPattern(sim) ==
    IF sim.ecgBufferIndex < Len(sim.ecgPatternBuffer)
    THEN sim.ecgPatternBuffer[sim.ecgBufferIndex + 1] ELSE 0

leadOffEcgValue(sim) == 0

\* if (newSimData.isLeadOff) { ... continue; }
leadOffTick(sim) ==
    LET w == spo2Walk(sim, sim.spo2PulsePatternBuffer, sim.spo2NextPulseDue)
    IN [sim EXCEPT
          !.metrics.heartRate = 0,
          !.ecgData = shiftIn(@, [time |-> sim.ecgCurrentTime, value |-> leadOffEcgValue(sim)]),
          !.respWaveData = shiftIn(@, [time |-> sim.ecgCurrentTime]),
          !.spo2PulseBufferIndex = w.index,
          !.spo2PulsePatternBuffer = w.buffer,
          !.spo2NextPulseDue = w.due,
          !.spo2WaveData = shiftIn(@, [time |-> sim.ecgCurrentTime]),
          !.ecgCurrentTime = @ + 1]

\* Beat scheduling: whether a beat is due, whether the pacer captures it, the
\* target rate and the countdown after this tick.
beatScheduling(sim, patient, draw) ==
    LET pacerSettings == patient.pacerSettings
        pacerOn == pacerSettings.mode # "Off"
        heartRate == sim.metrics.heartRate
        nextBeatDue == rrNotPositive(sim.nextRRIntervalPoints)
        isPacedBeat == nextBeatDue /\ pacerOn /\ heartRate < pacerSettings.rate
        target == IF ~nextBeatDue THEN sim.currentTargetHeartRate
                  ELSE IF isPacedBeat THEN pacerSettings.rate
                  ELSE simulatedHR(patient.activeRhythm, draw)
        points == IF nextBeatDue THEN rrIntervalPoints(target) ELSE sim.nextRRIntervalPoints
    IN [nextBeatDue |-> nextBeatDue, isPacedBeat |-> isPacedBeat,
        currentTargetHeartRate |-> target, nextRRIntervalPoints |-> rrDecrement(points)]

\* A callback body that starts the SpO2 pulse for the rhythm's own beats only.
normalTickPulseOnQRSOnly(sim, patient, t, draw) ==
    LET rhythmParams == RHYTHM_PARAMS[patient.activeRhythm]
        b == beatScheduling(sim, patient, draw)
        patternIndex == sim.ecgBufferIndex
        loads == patternIndex = 0 /\ b.nextBeatDue
        currentPattern ==
            IF patternIndex > 0 THEN sim.ecgPatternBuffer
            ELSE IF b.nextBeatDue
                 THEN IF b.isPacedBeat
                      THEN ECG_PACER_SPIKE_PATTERN \o ECG_PACED_QRS_PATTERN
                      ELSE rhythmParams.basePattern
                 ELSE <<>>
        pWave == loads /\ patient.activeRhythm = "THIRD_DEGREE_AV_BLOCK"
                 /\ (t - sim.lastPWaveTime) * rhythmParams.atrialRate > 60000
        newValue == IF patternIndex < Len(currentPattern)
                    THEN currentPattern[patternIndex + 1] ELSE 0
        newIndex == IF patternIndex >= Len(currentPattern) - 1 THEN 0 ELSE patternIndex + 1
        pulseDue == IF loads THEN rhythmParams.generatesQRS
                    ELSE sim.spo2NextPulseDue
        pulseBuffer == IF pulseDue /\ sim.spo2PulseBufferIndex = 0
                       THEN ECG_SPO2_PULSE_PATTERN ELSE sim.spo2PulsePatternBuffer
        w == spo2Walk(sim, pulseBuffer, pulseDue)
    IN [sim EXCEPT
          !.currentTargetHeartRate = b.currentTargetHeartRate,
          !.nextRRIntervalPoints = b.nextRRIntervalPoints,
          !.lastPWaveTime = IF pWave THEN t ELSE @,
          !.lastBeatTimestamp = IF loads THEN t ELSE @,
          !.ecgData = shiftIn(@, [time |-> sim.ecgCurrentTime, value |-> newValue]),
          !.ecgCurrentTime = @ + 1,
          !.ecgBufferIndex = newIndex,
          !.ecgPatternBuffer = IF newIndex = 0 THEN <<>> ELSE currentPattern,
          !.spo2PulseBufferIndex = w.index,
          !.spo2PulsePatternBuffer = w.buffer,
          !.spo2NextPulseDue = w.due,
          !.spo2WaveData = shiftIn(@, [time |-> sim.ecgCurrentTime + 1]),
          !.respWaveData = shiftIn(@, [time |-> sim.ecgCurrentTime + 1])]

\* A callback body that loads the pattern of every beat that comes due, also
\* while a pattern is in progress.
normalTickReloading(sim, patient, t, draw) ==
    LET rhythmParams == RHYTHM_PARAMS[patient.activeRhythm]
        b == beatScheduling(sim, patient, draw)
        patternIndex == IF b.nextBeatDue THEN 0 ELSE sim.ecgBufferIndex
        loads == patternIndex = 0 /\ b.nextBeatDue
        currentPattern ==
            IF patternIndex > 0 THEN sim.ecgPatternBuffer
            ELSE IF b.nextBeatDue
                 THEN IF b.isPacedBeat
                      THEN ECG_PACER_SPIKE_PATTERN \o ECG_PACED_QRS_PATTERN
                      ELSE rhythmParams.basePattern
                 ELSE <<>>
        pWave == loads /\ patient.activeRhythm = "THIRD_DEGREE_AV_BLOCK"
                 /\ (t - sim.lastPWaveTime) * rhythmParams.atrialRate > 60000
        newValue == IF patternIndex < Len(currentPattern)
                    THEN currentPattern[patternIndex + 1] ELSE 0
        newIndex == IF patternIndex >= Len(currentPattern) - 1 THEN 0 ELSE patternIndex + 1
        pulseDue == IF loads THEN rhythmParams.generatesQRS \/ b.isPacedBeat
                    ELSE sim.spo2NextPulseDue
        pulseBuffer == IF pulseDue /\ sim.spo2PulseBufferIndex = 0
                       THEN ECG_SPO2_PULSE_PATTERN ELSE sim.spo2PulsePatternBuffer
        w == spo2Walk(sim, pulseBuffer, pulseDue)
    IN [sim EXCEPT
          !.currentTargetHeartRate = b.currentTargetHeartRate,
          !.nextRRIntervalPoints = b.nextRRIntervalPoints,
          !.lastPWaveTime = IF pWave THEN t ELSE @,
          !.lastBeatTimestamp = IF loads THEN t ELSE @,
          !.ecgData = shiftIn(@, [time |-> sim.ecgCurrentTime, value |-> newValue]),
          !.ecgCurrentTime = @ + 1,
          !.ecgBufferIndex = newIndex,
          !.ecgPatternBuffer = IF newIndex = 0 THEN <<>> ELSE currentPattern,
          !.spo2PulseBufferIndex = w.index,
          !.spo2PulsePatternBuffer = w.buffer,
          !.spo2NextPulseDue = w.due,
          !.spo2WaveData = shiftIn(@, [time |-> sim.ecgCurrentTime + 1]),
          !.respWaveData = shiftIn(@, [time |-> sim.ecgCurrentTime + 1])]

\* The rest of the callback body for a patient whose lead is on.
normalTick(sim, patient, t, draw) ==
    LET rhythmParams == RHYTHM_PARAMS[patient.activeRhythm]
        b == beatScheduling(sim, patient, draw)
        patternIndex == sim.ecgBufferIndex
        loads == patternIndex = 0 /\ b.nextBeatDue
        currentPattern ==
            IF patternIndex > 0 THEN sim.ecgPatternBuffer
            ELSE IF b.nextBeatDue
                 THEN IF b.isPacedBeat
                      THEN ECG_PACER_SPIKE_PATTERN \o ECG_PACED_QRS_PATTERN
                      ELSE rhythmParams.basePattern
                 ELSE <<>>
        pWave == loads /\ patient.activeRhythm = "THIRD_DEGREE_AV_BLOCK"
                 /\ (t - sim.lastPWaveTime) * rhythmParams.atrialRate > 60000
        newValue == IF patternIndex < Len(currentPattern)
                    THEN currentPattern[patternIndex + 1] ELSE 0
        newIndex == IF patternIndex >= Len(currentPattern) - 1 THEN 0 ELSE patternIndex + 1
        pulseDue == IF loads THEN rhythmParams.generatesQRS \/ b.isPacedBeat
                    ELSE sim.spo2NextPulseDue
        pulseBuffer == IF pulseDue /\ sim.spo2PulseBufferIndex = 0
                       THEN ECG_SPO2_PULSE_PATTERN ELSE sim.spo2PulsePatternBuffer
        w == spo2Walk(sim, pulseBuffer, pulseDue)
    IN [sim EXCEPT
          !.currentTargetHeartRate = b.currentTargetHeartRate,
          !.nextRRIntervalPoints = b.nextRRIntervalPoints,
          !.lastPWaveTime = IF pWave THEN t ELSE @,
          !.lastBeatTimestamp = IF loads THEN t ELSE @,
          !.ecgData = shiftIn(@, [time |-> sim.ecgCurrentTime, value |-> newValue]),
          !.ecgCurrentTime = @ + 1,
          !.ecgBufferIndex = newIndex,
          !.ecgPatternBuffer = IF newIndex = 0 THEN <<>> ELSE currentPattern,
          !.spo2PulseBufferIndex = w.index,
          !.spo2PulsePatternBuffer = w.buffer,
          !.spo2NextPulseDue = w.due,
          !.spo2WaveData = shiftIn(@, [time |-> sim.ecgCurrentTime + 1]),
          !.respWaveData = shiftIn(@, [time |-> sim.ecgCurrentTime + 1])]

ecgTickPatient(sim, patient, t, draw) ==
    IF sim.isLeadOff THEN leadOffTick(sim) ELSE normalTick(sim, patient, t, draw)

\* patients.find(p => p.id === patientId)
findPatient(list, patientId) ==
    LET hits == {i \in 1..Len(list) : list[i].id = patientId}
    IN IF hits = {} THEN <<>>
       ELSE <<list[CHOOSE i \in hits : \A j \in hits : i <= j]>>

registryIds(list) == {list[i].id : i \in 1..Len(list)}

\* The whole updater of the ECG interval: an entry whose patient is not in the
\* captured list is not copied to the new map.
ecgIntervalUpdater(prevMap, captured, t, draw) ==
    [patientId \in {q \in DOMAIN prevMap : findPatient(captured, q) # <<>>} |->
        ecgTickPatient(prevMap[patientId], findPatient(captured, patientId)[1], t,
                       draw)]


(***************************************************************************)
(* LOW-FREQUENCY LOOP, one patient                                         *)
(***************************************************************************)
\* A sign that forgets the negative differences.
SignOfMagnitude(x) == IF x = 0 THEN 0 ELSE 1

Sign(x) == IF x > 0 THEN 1 ELSE IF x < 0 THEN 0 - 1 ELSE 0
Abs(x) == IF x < 0 THEN 0 - x ELSE x
Min(a, b) == IF a < b THEN a ELSE b
\* A maximum that returns its second argument: a lower clamp that is not applied.
MaxIgnoringFloor(a, b) == b
Max(a, b) == IF a > b THEN a ELSE b

\* `${metric} ${type === 'low' ? 'Low' : 'High'}: ${value}` as the triple it is
\* formatted from; two messages are equal exactly when their triples are.
alertMessage(metric, type, value) ==
    <<metric, IF type = "low" THEN "Low" ELSE "High", value>>

LEAD_OFF_MESSAGE == <<"ECG Lead Off">>

\* Thresholds that ignore the personalized overrides.
thresholdForGlobal(gt, pt, severity, type) ==
    IF type = "low"
    THEN (IF severity = "warning" THEN gt.LOW_WARNING ELSE gt.LOW_CRITICAL)
    ELSE (IF severity = "warning" THEN gt.HIGH_WARNING ELSE gt.HIGH_CRITICAL)

\* pt?.lowWarning ?? gt.LOW_WARNING and its three siblings
thresholdFor(gt, pt, severity, type) ==
    IF type = "low"
    THEN IF severity = "warning"
         THEN (IF pt.lowWarning # Undefined THEN pt.lowWarning ELSE gt.LOW_WARNING)
         ELSE (IF pt.lowCritical # Undefined THEN pt.lowCritical ELSE gt.LOW_CRITICAL)
    ELSE IF severity = "warning"
         THEN (IF pt.highWarning # Undefined THEN pt.highWarning ELSE gt.HIGH_WARNING)
         ELSE (IF pt.highCritical # Undefined THEN pt.highCritical ELSE gt.HIGH_CRITICAL)

\* A comparison with an undefined threshold is false in the source.
isTriggered(value, threshold, type) ==
    /\ threshold # Undefined
    /\ IF type = "low" THEN value < threshold ELSE value > threshold

\* The de-duplication key of checkAlert.
sameAlert(a, message, severity) == a.message = message /\ a.severity = severity

\* checkAlert without the lookup of an alert with the same message and severity.
checkAlertAlwaysPushing(newAlerts, metric, value, gt, pt, severity, type, id, t) ==
    LET message == alertMessage(metric, type, value)
    IN IF isTriggered(value, thresholdFor(gt, pt, severity, type), type)
       THEN Append(newAlerts, [id |-> id, message |-> message, severity |-> severity,
                               timestamp |-> t, metric |-> metric])
       ELSE newAlerts

\* checkAlert: newAlerts after one call.
checkAlert(newAlerts, metric, value, gt, pt, severity, type, id, t) ==
    LET message == alertMessage(metric, type, value)
    IN IF isTriggered(value, thresholdFor(gt, pt, severity, type), type)
          /\ ~(\E i \in 1..Len(newAlerts) : sameAlert(newAlerts[i], message, severity))
       THEN Append(newAlerts, [id |-> id, message |-> message, severity |-> severity,
                               timestamp |-> t, metric |-> metric])
       ELSE newAlerts

\* The six checkAlert calls of one tick, in the source's order.
evaluateAlerts(alerts, metrics, patient, uid, t) ==
    LET hr == metrics.heartRate
        gtH == ALERT_THRESHOLDS.HEART_RATE
        ptH == patient.personalizedThresholds.heartRate
        gtS == ALERT_THRESHOLDS.SPO2
        ptS == patient.personalizedThresholds.spo2
        a1 == checkAlert(alerts, "Heart Rate", hr, gtH, ptH, "critical", "low", <<uid, patient.id, 1>>, t)
        a2 == checkAlert(a1, "Heart Rate", hr, gtH, ptH, "warning", "low", <<uid, patient.id, 2>>, t)
        a3 == checkAlert(a2, "Heart Rate", hr, gtH, ptH, "critical", "high", <<uid, patient.id, 3>>, t)
        a4 == checkAlert(a3, "Heart Rate", hr, gtH, ptH, "warning", "high", <<uid, patient.id, 4>>, t)
        a5 == checkAlert(a4, "SpO2", metrics.spo2, gtS, ptS, "critical", "low", <<uid, patient.id, 5>>, t)
    IN checkAlert(a5, "SpO2", metrics.spo2, gtS, ptS, "warning", "low", <<uid, patient.id, 6>>, t)

\* Heart-rate convergence, slow drift and the lethal-rhythm override.
evolveMetrics(sim, patient, t, draw) ==
    LET m == sim.metrics
        hrDiff == sim.currentTargetHeartRate - m.heartRate
        heartRate == m.heartRate + Sign(hrDiff) * Min(Abs(hrDiff), 2)
        bpDue == t - sim.lastBPUpdate > BP_UPDATE_INTERVAL_MS
        tempDue == t - sim.lastTempUpdate > TEMP_UPDATE_INTERVAL_MS
        rrDue == t - sim.lastRRUpdate > RR_UPDATE_INTERVAL_MS
        bp == IF bpDue
              THEN [systolic |-> m.bloodPressure.systolic + generateRandomInRange(0 - 3, 3, draw),
                    diastolic |-> m.bloodPressure.diastolic + generateRandomInRange(0 - 2, 2, draw)]
              ELSE m.bloodPressure
        temperature == IF tempDue THEN m.temperature + generateRandomInRange(0 - 1, 1, draw) ELSE m.temperature
        rr == IF rrDue THEN Max(8, Min(35, m.respiratoryRate + generateRandomInRange(0 - 1, 1, draw)))
              ELSE m.respiratoryRate
        lethal == RHYTHM_PARAMS[patient.activeRhythm].isLethal
    IN [metrics |->
            [heartRate |-> heartRate,
             bloodPressure |-> IF lethal THEN [systolic |-> 0, diastolic |-> 0] ELSE bp,
             spo2 |-> IF lethal THEN 0 ELSE m.spo2,
             temperature |-> temperature,
             respiratoryRate |-> IF lethal THEN 0 ELSE rr],
        lastBPUpdate |-> IF bpDue THEN t ELSE sim.lastBPUpdate,
        lastTempUpdate |-> IF tempDue THEN t ELSE sim.lastTempUpdate,
        lastRRUpdate |-> IF rrDue THEN t ELSE sim.lastRRUpdate]

\* Vitals logging without the eviction of the oldest entry.
logVitalsUncapped(loggedVitals, metrics, t) ==
    IF Len(loggedVitals) = 0
       \/ t - loggedVitals[Len(loggedVitals)].timestamp > AUTO_LOG_VITALS_INTERVAL_SECONDS * 1000
    THEN Append(loggedVitals, [timestamp |-> t, metrics |-> metrics])
    ELSE loggedVitals

\* Vitals logging with the cap of 200 entries.
logVitals(loggedVitals, metrics, t) ==
    IF Len(loggedVitals) = 0
       \/ t - loggedVitals[Len(loggedVitals)].timestamp > AUTO_LOG_VITALS_INTERVAL_SECONDS * 1000
    THEN LET updatedVitals == Append(loggedVitals, [timestamp |-> t, metrics |-> metrics])
         IN IF Len(updatedVitals) > MAX_LOGGED_VITALS THEN Tail(updatedVitals) ELSE updatedVitals
    ELSE loggedVitals

\* A callback body that rebuilds the alerts from the conditions of this tick.
vitalsTickPatientClearing(sim, patient, t, draw, uid) ==
    LET e == evolveMetrics(sim, patient, t, draw)
    IN [sim EXCEPT
          !.metrics = e.metrics,
          !.lastBPUpdate = e.lastBPUpdate,
          !.lastTempUpdate = e.lastTempUpdate,
          !.lastRRUpdate = e.lastRRUpdate,
          !.alerts = evaluateAlerts(<<>>, e.metrics, patient, uid, t),
          !.loggedVitals = logVitals(@, e.metrics, t)]

\* The callback body for one patient found in the captured list.
vitalsTickPatient(sim, patient, t, draw, uid) ==
    LET e == evolveMetrics(sim, patient, t, draw)
    IN [sim EXCEPT
          !.metrics = e.metrics,
          !.lastBPUpdate = e.lastBPUpdate,
          !.lastTempUpdate = e.lastTempUpdate,
          !.lastRRUpdate = e.lastRRUpdate,
          !.alerts = evaluateAlerts(@, e.metrics, patient, uid, t),
          !.loggedVitals = logVitals(@, e.metrics, t)]

\* An entry whose patient is not in the captured list is copied unchanged.
vitalsIntervalUpdater(prevMap, captured, t, draw, uid) ==
    [patientId \in DOMAIN prevMap |->
        IF findPatient(captured, patientId) = <<>> THEN prevMap[patientId]
        ELSE vitalsTickPatient(prevMap[patientId], findPatient(captured, patientId)[1], t,
                               draw, uid)]

\* if (now - lastAnalyzedTimestamp > INTERVAL) runHeartSenseAIAnalysis(...), whose
\* first line returns when the state it was handed is loading.
analysisLaunched(newSim, t) ==
    /\ t - newSim.heartSenseAIState.lastAnalyzedTimestamp > HEARTSENSE_AI_ANALYSIS_INTERVAL_MS
    /\ ~newSim.heartSenseAIState.isLoading

(***************************************************************************)
(* HeartSense AI analysis                                                  *)
(***************************************************************************)
\* The rule table of mockRunHeartSenseAIAnalysis; the delay it awaits is the
\* time the call stays in aiInFlight.
mockRunHeartSenseAIAnalysis(patient, simData, draw) ==
    LET unacknowledgedAlerts ==
            {i \in 1..Len(simData.alerts) :
                simData.alerts[i].id \notin simData.acknowledgedAlertIds}
        hasCriticalAlerts == \E i \in unacknowledgedAlerts : simData.alerts[i].severity = "critical"
        hasWarningAlerts == \E i \in unacknowledgedAlerts : simData.alerts[i].severity = "warning"
        rhythm == patient.activeRhythm
        hr == simData.metrics.heartRate
        rules ==
            IF RHYTHM_PARAMS[rhythm].isLethal
            THEN [riskScore |-> generateRandomInRange(90, 98, draw), riskLevel |-> "Critical"]
            ELSE IF hasCriticalAlerts
            THEN [riskScore |-> generateRandomInRange(75, 90, draw), riskLevel |-> "High"]
            ELSE IF rhythm \notin {"NSR", "SINUS_TACHYCARDIA", "SINUS_BRADYCARDIA", "FIRST_DEGREE_AV_BLOCK"}
            THEN [riskScore |-> generateRandomInRange(50, 75, draw), riskLevel |-> "Moderate"]
            ELSE IF hasWarningAlerts
            THEN [riskScore |-> generateRandomInRange(30, 50, draw), riskLevel |-> "Moderate"]
            ELSE IF rhythm = "SINUS_TACHYCARDIA" \/ hr > 100
            THEN [riskScore |-> generateRandomInRange(20, 40, draw), riskLevel |-> "Low"]
            ELSE IF rhythm = "SINUS_BRADYCARDIA" \/ hr < 60
            THEN [riskScore |-> generateRandomInRange(20, 40, draw), riskLevel |-> "Low"]
            ELSE [riskScore |-> generateRandomInRange(5, 20, draw), riskLevel |-> "Stable"]
    IN IF 2 * Len(simData.loggedVitals) < HEARTSENSE_LOGGED_VITALS_COUNT
       THEN [riskScore |-> 0, riskLevel |-> "Insufficient Data"]
       ELSE rules

\* prev => new Map(prev).set(patient.id, {...simData, heartSenseAIState: {..., isLoading: true}})
\* where simData is the state the analysis was launched with.
analysisMarkUpdater(prev, patient, simData) ==
    [patientId \in DOMAIN prev \cup {patient.id} |->
        IF patientId = patient.id
        THEN [simData EXCEPT !.heartSenseAIState.isLoading = TRUE]
        ELSE prev[patientId]]

\* The state updater of the successful resolution without its
\* if (!currentSimData) return prev.
analysisResolvedUpdaterUnguarded(prev, patient, simData, aiOutput, t) ==
    [patientId \in DOMAIN prev \cup {patient.id} |->
        IF patientId = patient.id
        THEN [(IF patientId \in DOMAIN prev THEN prev[patientId] ELSE simData) EXCEPT
                 !.heartSenseAIState =
                     [riskScore |-> aiOutput.riskScore, riskLevel |-> aiOutput.riskLevel,
                      lastAnalyzedTimestamp |-> t, isLoading |-> FALSE, error |-> FALSE]]
        ELSE prev[patientId]]

\* A resolution that merges the AI output into the snapshot captured at launch.
analysisResolvedUpdaterFromSnapshot(prev, patient, simData, aiOutput, t) ==
    IF patient.id \notin DOMAIN prev THEN prev
    ELSE [prev EXCEPT ![patient.id] =
             [simData EXCEPT !.heartSenseAIState =
                 [riskScore |-> aiOutput.riskScore, riskLevel |-> aiOutput.riskLevel,
                  lastAnalyzedTimestamp |-> t, isLoading |-> FALSE, error |-> FALSE]]]

\* A resolution that leaves isLoading as it finds it.
analysisResolvedUpdaterKeepingLoading(prev, patient, simData, aiOutput, t) ==
    IF patient.id \notin DOMAIN prev THEN prev
    ELSE [prev EXCEPT ![patient.id].heartSenseAIState =
             [riskScore |-> aiOutput.riskScore, riskLevel |-> aiOutput.riskLevel,
              lastAnalyzedTimestamp |-> t, isLoading |-> @.isLoading, error |-> FALSE]]

\* The state updater of the successful resolution.
analysisResolvedUpdater(prev, patient, simData, aiOutput, t) ==
    IF patient.id \notin DOMAIN prev THEN prev
    ELSE [prev EXCEPT ![patient.id].heartSenseAIState =
             [riskScore |-> aiOutput.riskScore, riskLevel |-> aiOutput.riskLevel,
              lastAnalyzedTimestamp |-> t, isLoading |-> FALSE, error |-> FALSE]]

\* The state updater of the catch block.
analysisFailedUpdater(prev, patient, t) ==
    IF patient.id \notin DOMAIN prev THEN prev
    ELSE [prev EXCEPT ![patient.id].heartSenseAIState =
             [INITIAL_HEARTSENSE_AI_STATE EXCEPT
                 !.riskLevel = "Error", !.lastAnalyzedTimestamp = t,
                 !.isLoading = FALSE, !.error = TRUE]]

\* The analyses one low-frequency tick launches, in the map's iteration order
\* (insertion order; ids are inserted in increasing order here).
RECURSIVE launchesOf(_, _, _, _)
launchesOf(ids, newMap, captured, t) ==
    IF ids = {} THEN <<>>
    ELSE LET patientId == CHOOSE q \in ids : \A r \in ids : q <= r
             rest == launchesOf(ids \ {patientId}, newMap, captured, t)
         IN IF findPatient(captured, patientId) # <<>> /\ analysisLaunched(newMap[patientId], t)
            THEN <<[patient |-> findPatient(captured, patientId)[1],
                    simData |-> newMap[patientId]]>> \o rest
            ELSE rest

(***************************************************************************)
(* PATIENT MANAGEMENT API: the state updaters                              *)
(***************************************************************************)
\* addPatient: activeRhythm 'NSR', pacer Off at 70, id PID<Date.now()>
newPatientOfInheriting(t) ==
    [id |-> t, activeRhythm |-> INITIAL_PATIENTS[3].activeRhythm,
     pacerSettings |-> INITIAL_PATIENTS[3].pacerSettings,
     personalizedThresholds |-> NoPersonalizedThresholds, noiseSignatures |-> <<>>]

newPatientOf(t) ==
    [id |-> t, activeRhythm |-> "NSR", pacerSettings |-> [mode |-> "Off", rate |-> 70],
     personalizedThresholds |-> NoPersonalizedThresholds, noiseSignatures |-> <<>>]

mapSet(prev, patientId, simData) ==
    [q \in DOMAIN prev \cup {patientId} |-> IF q = patientId THEN simData ELSE prev[q]]

mapDelete(prevMap, patientId) ==
    [q \in DOMAIN prevMap \ {patientId} |-> prevMap[q]]

\* prevPatients.filter(p => p.id !== patientId)
filterOut(prevPatients, patientId) ==
    SelectSeq(prevPatients, LAMBDA p : p.id # patientId)

\* A deletion that leaves the selection alone.
deleteSelectionKeeping(prevSelectedId, patientId, newPatients, none) == prevSelectedId

deleteSelection(prevSelectedId, patientId, newPatients, none) ==
    IF prevSelectedId = patientId
    THEN (IF Len(newPatients) > 0 THEN newPatients[1].id ELSE none)
    ELSE prevSelectedId

setRhythmPatients(prev, patientId, rhythm) ==
    [i \in 1..Len(prev) |->
        IF prev[i].id = patientId THEN [prev[i] EXCEPT !.activeRhythm = rhythm] ELSE prev[i]]

\* A rhythm change that leaves the target rate for the next beat to refresh.
setRhythmMapKeepingTarget(prev, patientId, rhythm, draw) == prev

\* A rhythm change that restores the default SpO2 with the new target rate.
setRhythmMapRestoringSpO2(prev, patientId, rhythm, draw) ==
    IF patientId \notin DOMAIN prev THEN prev
    ELSE [prev EXCEPT ![patientId].currentTargetHeartRate = simulatedHR(rhythm, draw),
                      ![patientId].metrics.spo2 = getDefaultMetrics(0, draw).spo2]

setRhythmMap(prev, patientId, rhythm, draw) ==
    IF patientId \notin DOMAIN prev THEN prev
    ELSE [prev EXCEPT ![patientId].currentTargetHeartRate = simulatedHR(rhythm, draw)]

pacingPatients(prev, patientId, settings) ==
    [i \in 1..Len(prev) |->
        IF prev[i].id = patientId
        THEN [prev[i] EXCEPT !.pacerSettings =
                 [f \in DOMAIN @ |-> IF f \in DOMAIN settings THEN settings[f] ELSE @[f]]]
        ELSE prev[i]]

\* updatePatientDetails: prev.map(p => p.id === patientId ? {...p, ...details} : p)
updateDetailsPatients(prev, patientId, details) ==
    [i \in 1..Len(prev) |->
        IF prev[i].id = patientId
        THEN [f \in DOMAIN prev[i] \cup DOMAIN details |->
                 IF f \in DOMAIN details THEN details[f] ELSE prev[i][f]]
        ELSE prev[i]]

\* updatePatientNoiseSignatures
noiseSignaturesPatients(prev, patientId, signatures) ==
    [i \in 1..Len(prev) |->
        IF prev[i].id = patientId THEN [prev[i] EXCEPT !.noiseSignatures = signatures]
        ELSE prev[i]]

\* acknowledgePatientAlerts: the ids one call adds; NoSeverity is the call
\* without the optional argument.
NoSeverity == "all"

\* An acknowledgement that ignores the severity filter.
acknowledgedByAnySeverity(simData, alertTypeToAcknowledge) ==
    {simData.alerts[i].id : i \in 1..Len(simData.alerts)}

acknowledgedBy(simData, alertTypeToAcknowledge) ==
    {simData.alerts[i].id : i \in {j \in 1..Len(simData.alerts) :
        alertTypeToAcknowledge = NoSeverity \/ simData.alerts[j].severity = alertTypeToAcknowledge}}

\* An acknowledgement that also takes the acknowledged alerts off the list.
acknowledgeRemoving(prev, patientId, alertTypeToAcknowledge) ==
    IF patientId \notin DOMAIN prev THEN prev
    ELSE [prev EXCEPT
            ![patientId].acknowledgedAlertIds =
                @ \cup acknowledgedBy(prev[patientId], alertTypeToAcknowledge),
            ![patientId].alerts =
                SelectSeq(@, LAMBDA a :
                    a.id \notin acknowledgedBy(prev[patientId], alertTypeToAcknowledge))]

acknowledgeUpdater(prev, patientId, alertTypeToAcknowledge) ==
    IF patientId \notin DOMAIN prev THEN prev
    ELSE [prev EXCEPT ![patientId].acknowledgedAlertIds =
             @ \cup acknowledgedBy(prev[patientId], alertTypeToAcknowledge)]

\* provideAlarmFeedback: one log entry per unacknowledged alert of the severity,
\* in list order.
\* Feedback that also takes the alerts already acknowledged.
feedbackEntriesOfAcknowledged(simData, patientId, feedbackType, alertSeverity, uid, t) ==
    LET unacknowledgedAlerts ==
            SelectSeq(simData.alerts, LAMBDA a : a.severity = alertSeverity)
    IN [k \in 1..Len(unacknowledgedAlerts) |->
          [id |-> <<uid, patientId, k>>,
           patientId |-> patientId,
           alertSnapshot |-> [message |-> unacknowledgedAlerts[k].message,
                              severity |-> unacknowledgedAlerts[k].severity,
                              metric |-> unacknowledgedAlerts[k].metric,
                              originalTimestamp |-> unacknowledgedAlerts[k].timestamp],
           alertId |-> unacknowledgedAlerts[k].id,
           feedback |-> feedbackType,
           feedbackTimestamp |-> t]]

feedbackEntries(simData, patientId, feedbackType, alertSeverity, uid, t) ==
    LET unacknowledgedAlerts ==
            SelectSeq(simData.alerts, LAMBDA a :
                a.severity = alertSeverity /\ a.id \notin simData.acknowledgedAlertIds)
    IN [k \in 1..Len(unacknowledgedAlerts) |->
          [id |-> <<uid, patientId, k>>,
           patientId |-> patientId,
           alertSnapshot |-> [message |-> unacknowledgedAlerts[k].message,
                              severity |-> unacknowledgedAlerts[k].severity,
                              metric |-> unacknowledgedAlerts[k].metric,
                              originalTimestamp |-> unacknowledgedAlerts[k].timestamp],
           alertId |-> unacknowledgedAlerts[k].id,
           feedback |-> feedbackType,
           feedbackTimestamp |-> t]]

\* Feedback that never puts the lead back.
feedbackKeepingLeadOff(prev, patientId, feedbackType, alertSeverity, uid, t) ==
    IF patientId \notin DOMAIN prev THEN prev
    ELSE LET simData == prev[patientId]
             entries == feedbackEntries(simData, patientId, feedbackType, alertSeverity, uid, t)
         IN [prev EXCEPT
               ![patientId].alarmFeedbackLog =
                   @ \o [k \in 1..Len(entries) |->
                           [f \in DOMAIN entries[k] \ {"alertId"} |-> entries[k][f]]],
               ![patientId].acknowledgedAlertIds =
                   @ \cup {entries[k].alertId : k \in 1..Len(entries)}]

\* A feedback that removes the lead-off alert and leaves the lead off.
feedbackLeavingLeadOff(prev, patientId, feedbackType, alertSeverity, uid, t) ==
    IF patientId \notin DOMAIN prev THEN prev
    ELSE LET simData == prev[patientId]
             entries == feedbackEntries(simData, patientId, feedbackType, alertSeverity, uid, t)
             shouldReconnectLead ==
                 \E k \in 1..Len(entries) : entries[k].alertSnapshot.message = LEAD_OFF_MESSAGE
         IN [prev EXCEPT
               ![patientId].alarmFeedbackLog =
                   @ \o [k \in 1..Len(entries) |->
                           [f \in DOMAIN entries[k] \ {"alertId"} |-> entries[k][f]]],
               ![patientId].acknowledgedAlertIds =
                   @ \cup {entries[k].alertId : k \in 1..Len(entries)},
               ![patientId].isLeadOff = @,
               ![patientId].alerts =
                   IF shouldReconnectLead
                   THEN SelectSeq(@, LAMBDA a : a.message # LEAD_OFF_MESSAGE)
                   ELSE @]

feedbackUpdater(prev, patientId, feedbackType, alertSeverity, uid, t) ==
    IF patientId \notin DOMAIN prev THEN prev
    ELSE LET simData == prev[patientId]
             entries == feedbackEntries(simData, patientId, feedbackType, alertSeverity, uid, t)
             shouldReconnectLead ==
                 \E k \in 1..Len(entries) : entries[k].alertSnapshot.message = LEAD_OFF_MESSAGE
         IN [prev EXCEPT
               ![patientId].alarmFeedbackLog =
                   @ \o [k \in 1..Len(entries) |->
                           [f \in DOMAIN entries[k] \ {"alertId"} |-> entries[k][f]]],
               ![patientId].acknowledgedAlertIds =
                   @ \cup {entries[k].alertId : k \in 1..Len(entries)},
               ![patientId].isLeadOff = IF shouldReconnectLead THEN FALSE ELSE @,
               ![patientId].alerts =
                   IF shouldReconnectLead
                   THEN SelectSeq(@, LAMBDA a : a.message # LEAD_OFF_MESSAGE)
                   ELSE @]

isLeadOffAlert(a) == a.message = LEAD_OFF_MESSAGE

\* A toggle that leaves the lead-off alert on the list when the lead is put back.
toggleKeepingAlert(prev, patientId, uid, t) ==
    IF patientId \notin DOMAIN prev THEN prev
    ELSE LET simData == prev[patientId]
             newIsLeadOff == ~simData.isLeadOff
         IN [prev EXCEPT
               ![patientId].isLeadOff = newIsLeadOff,
               ![patientId].alerts =
                   IF newIsLeadOff /\ ~(\E i \in 1..Len(@) : isLeadOffAlert(@[i]))
                   THEN Append(@, [id |-> <<uid, patientId, 0>>, message |-> LEAD_OFF_MESSAGE,
                                   severity |-> "critical", timestamp |-> t, metric |-> "ECG"])
                   ELSE @]

toggleUpdater(prev, patientId, uid, t) ==
    IF patientId \notin DOMAIN prev THEN prev
    ELSE LET simData == prev[patientId]
             newIsLeadOff == ~simData.isLeadOff
         IN [prev EXCEPT
               ![patientId].isLeadOff = newIsLeadOff,
               ![patientId].alerts =
                   IF newIsLeadOff
                   THEN IF ~(\E i \in 1..Len(@) : isLeadOffAlert(@[i]))
                        THEN Append(@, [id |-> <<uid, patientId, 0>>, message |-> LEAD_OFF_MESSAGE,
                                        severity |-> "critical", timestamp |-> t, metric |-> "ECG"])
                        ELSE @
                   ELSE SelectSeq(@, LAMBDA a : ~isLeadOffAlert(a))]

(***************************************************************************)
(* DATA PERSISTENCE                                                        *)
(***************************************************************************)
\* localStorage.getItem(...) returning null
NoData == [present |-> FALSE]

\* dataToStore of the save effect
dataToStore(patientList, map) ==
    [present |-> TRUE,
     patients |-> patientList,
     persistentPatientData |->
        [patientId \in DOMAIN map |->
            [loggedVitals |-> map[patientId].loggedVitals,
             alarmFeedbackLog |-> map[patientId].alarmFeedbackLog,
             heartSenseAIState |-> map[patientId].heartSenseAIState]]]

\* The patients the load effect sets.
loadedPatients(data) == IF data.present THEN data.patients ELSE INITIAL_PATIENTS

\* The simulation state the load effect builds for one patient.
loadedSimData(data, p, draw) ==
    LET simData == createInitialPatientSimData(p, draw)
    IN IF data.present /\ p.id \in DOMAIN data.persistentPatientData
       THEN [simData EXCEPT
               !.loggedVitals = data.persistentPatientData[p.id].loggedVitals,
               !.alarmFeedbackLog = data.persistentPatientData[p.id].alarmFeedbackLog,
               !.heartSenseAIState =
                   [data.persistentPatientData[p.id].heartSenseAIState EXCEPT
                       !.isLoading = FALSE, !.error = FALSE]]
       ELSE simData

loadedMap(data, draw) ==
    [patientId \in registryIds(loadedPatients(data)) |->
        loadedSimData(data, findPatient(loadedPatients(data), patientId)[1], draw)]

loadedSelection(data, prevId, none) ==
    LET loaded == loadedPatients(data)
    IN IF ~data.present THEN loaded[1].id
       ELSE IF Len(loaded) > 0
            THEN (IF prevId \in registryIds(loaded) THEN prevId ELSE loaded[1].id)
            ELSE none

(***************************************************************************)
(* The state machine                                                       *)
(***************************************************************************)
NoOrg == "none"          \* organizationName null or undefined
Org == "General Hospital"
NoSelection == 0         \* selectedPatientId null

\* Date.now() at construction: later than every update interval, as any real
\* clock value is.
InitialNow == HEARTSENSE_AI_ANALYSIS_INTERVAL_MS + SIMULATION_VITALS_INTERVAL_MS

\* What an earlier session of the organization left in localStorage: it logged
\* in on a fresh installation, kept the one patient p, ran one low-frequency
\* tick and saw its analysis resolve.
previousSession(p) ==
    LET t0 == InitialNow - 2 * SIMULATION_VITALS_INTERVAL_MS
        created == createInitialPatientSimData(p, "lo")
        ticked == vitalsTickPatient(created, p, t0, "lo", 0)
        resolved == analysisResolvedUpdater([q \in {p.id} |-> ticked], p, ticked,
                        mockRunHeartSenseAIAnalysis(p, ticked, "lo"),
                        t0 + SIMULATION_VITALS_INTERVAL_MS)
    IN dataToStore(<<p>>, resolved)

\* The same session closed before the analysis resolved.
unresolvedSession(p) ==
    LET t0 == InitialNow - 2 * SIMULATION_VITALS_INTERVAL_MS
        created == createInitialPatientSimData(p, "lo")
        ticked == vitalsTickPatient(created, p, t0, "lo", 0)
    IN dataToStore(<<p>>, [q \in {p.id} |-> ticked])

NoView == [isLeadOff |-> FALSE, alerts |-> <<>>, acknowledgedAlertIds |-> {}, present |-> FALSE]

\* The alert state of a patient as the operations on alerts see it.
alertView(map, patientId) ==
    IF patientId \in DOMAIN map
    THEN [isLeadOff |-> map[patientId].isLeadOff, alerts |-> map[patientId].alerts,
          acknowledgedAlertIds |-> map[patientId].acknowledgedAlertIds, present |-> TRUE]
    ELSE NoView

NoOp == [op |-> "construct", id |-> 0, args |-> <<>>, rep |-> 0, pre |-> NoView]

\* Observer: the step just taken is operation op on patient id with the other
\* arguments args; rep counts the calls of the same operation with the same
\* arguments in a row and pre is the alert state before the first of them.
DoneWith(op, id, args) ==
    lastOp' = IF lastOp.op = op /\ lastOp.id = id /\ lastOp.args = args
              THEN [lastOp EXCEPT !.rep = @ + 1]
              ELSE [op |-> op, id |-> id, args |-> args, rep |-> 1,
                    pre |-> alertView(simulationDataMap, id)]

Done(op, id) == DoneWith(op, id, <<>>)

Spend(kind) ==
    /\ budget[kind] > 0
    /\ budget' = [budget EXCEPT ![kind] = @ - 1]

\* The save effect: runs after every change of patients or simulationDataMap
\* once an organization is logged in and the load effect has run.
Saved ==
    storage' = IF organizationName' # NoOrg
               THEN dataToStore(patients', simulationDataMap')
               ELSE storage

InitWith(stored, allowance) ==
    /\ patients = <<>>
    /\ selectedPatientId = NoSelection
    /\ simulationDataMap = <<>>
    /\ timerPatients = <<>>
    /\ organizationName = NoOrg
    /\ storage \in stored
    /\ aiInFlight = <<>>
    /\ now = InitialNow
    /\ nextUid = 1
    /\ lastOp = NoOp
    /\ budget = allowance

\* The organization logs in: the load effect runs, then the save effect.
Login ==
    /\ organizationName = NoOrg
    /\ Spend("login")
    /\ \E draw \in Draws :
          /\ organizationName' = Org
          /\ patients' = loadedPatients(storage)
          /\ simulationDataMap' = loadedMap(storage, draw)
          /\ selectedPatientId' = loadedSelection(storage, selectedPatientId, NoSelection)
    /\ Done("login", 0)
    /\ UNCHANGED <<timerPatients, aiInFlight, now, nextUid>>
    /\ Saved

\* The effect that owns the two intervals runs again after patients changed:
\* the new closures capture the current list.
ReestablishTimers ==
    /\ timerPatients # patients
    /\ timerPatients' = patients
    /\ Done("timers", 0)
    /\ UNCHANGED <<patients, selectedPatientId, simulationDataMap, organizationName,
                   storage, aiInFlight, now, nextUid, budget>>

ClockSteps == {SIMULATION_ECG_INTERVAL_MS, SIMULATION_VITALS_INTERVAL_MS}

PassTime ==
    /\ Spend("clock")
    /\ \E d \in ClockSteps : now' = now + d
    /\ Done("clock", 0)
    /\ UNCHANGED <<patients, selectedPatientId, simulationDataMap, timerPatients,
                   organizationName, storage, aiInFlight, nextUid>>

\* Time passes until the next respiratory-rate drift is due at a vitals tick.
PassDriftInterval ==
    /\ Spend("clock")
    /\ now' = now + RR_UPDATE_INTERVAL_MS + SIMULATION_VITALS_INTERVAL_MS
    /\ Done("clock", 0)
    /\ UNCHANGED <<patients, selectedPatientId, simulationDataMap, timerPatients,
                   organizationName, storage, aiInFlight, nextUid>>

\* One firing of the ECG interval.
EcgTick ==
    /\ Spend("ecg")
    /\ \E draw \in Draws :
          simulationDataMap' = ecgIntervalUpdater(simulationDataMap, timerPatients, now, draw)
    /\ Done("ecgTick", 0)
    /\ UNCHANGED <<patients, selectedPatientId, timerPatients, organizationName,
                   aiInFlight, now, nextUid>>
    /\ Saved

\* One firing of the vitals interval.  The updater calls runHeartSenseAIAnalysis,
\* which queues its isLoading mark from inside the updater: when React computes
\* the updater eagerly the mark is queued before the tick's own update and is
\* overwritten by it; otherwise the mark is applied after the updates queued so
\* far (AIMarkLoading), in the render that comes before the interval fires again.
VitalsTick ==
    /\ Spend("vitals")
    /\ \A i \in 1..Len(aiInFlight) : ~aiInFlight[i].markPending
    /\ \E draw \in Draws, eager \in BOOLEAN :
          LET newMap == vitalsIntervalUpdater(simulationDataMap, timerPatients, now, draw, nextUid)
              launches == launchesOf(DOMAIN simulationDataMap, newMap, timerPatients, now)
          IN /\ simulationDataMap' = newMap
             /\ aiInFlight' = aiInFlight \o
                   [k \in 1..Len(launches) |->
                       [patient |-> launches[k].patient, simData |-> launches[k].simData,
                        markPending |-> ~eager]]
    /\ nextUid' = nextUid + 1
    /\ Done("vitalsTick", 0)
    /\ UNCHANGED <<patients, selectedPatientId, timerPatients, organizationName, now>>
    /\ Saved

RECURSIVE applyMarks(_, _)
applyMarks(map, flights) ==
    IF flights = <<>> THEN map
    ELSE applyMarks(IF Head(flights).markPending
                    THEN analysisMarkUpdater(map, Head(flights).patient, Head(flights).simData)
                    ELSE map,
                    Tail(flights))

\* The queued isLoading marks are applied.
AIMarkLoading ==
    /\ \E i \in 1..Len(aiInFlight) : aiInFlight[i].markPending
    /\ simulationDataMap' = applyMarks(simulationDataMap, aiInFlight)
    /\ aiInFlight' = [i \in 1..Len(aiInFlight) |-> [aiInFlight[i] EXCEPT !.markPending = FALSE]]
    /\ Done("aiMark", 0)
    /\ UNCHANGED <<patients, selectedPatientId, timerPatients, organizationName,
                   now, nextUid, budget>>
    /\ Saved

removeAt(s, i) == [k \in 1..(Len(s) - 1) |-> IF k < i THEN s[k] ELSE s[k + 1]]

\* An analysis in flight resolves.
AIResolve ==
    \E i \in 1..Len(aiInFlight), draw \in Draws :
        LET a == aiInFlight[i]
        IN /\ ~a.markPending
           /\ simulationDataMap' =
                 analysisResolvedUpdater(simulationDataMap, a.patient, a.simData,
                     mockRunHeartSenseAIAnalysis(a.patient, a.simData, draw), now)
           /\ aiInFlight' = removeAt(aiInFlight, i)
           /\ Done("aiResolve", a.patient.id)
           /\ UNCHANGED <<patients, selectedPatientId, timerPatients, organizationName,
                          now, nextUid, budget>>
           /\ Saved

\* ConnectMonitorModal / AddPatientModal -> addPatient
AddPatient ==
    /\ Spend("add")
    /\ \E draw \in Draws :
          LET newPatient == newPatientOf(now)
          IN /\ patients' = Append(patients, newPatient)
             /\ simulationDataMap' =
                   mapSet(simulationDataMap, newPatient.id,
                          createInitialPatientSimData(newPatient, draw))
             /\ selectedPatientId' = newPatient.id
             /\ Done("addPatient", newPatient.id)
    /\ UNCHANGED <<timerPatients, organizationName, aiInFlight, now, nextUid>>
    /\ Saved

DeletePatient ==
    /\ Spend("delete")
    /\ \E patientId \in registryIds(patients) :
          /\ simulationDataMap' = mapDelete(simulationDataMap, patientId)
          /\ patients' = filterOut(patients, patientId)
          /\ selectedPatientId' =
                deleteSelection(selectedPatientId, patientId, filterOut(patients, patientId),
                                NoSelection)
          /\ Done("deletePatient", patientId)
    /\ UNCHANGED <<timerPatients, organizationName, aiInFlight, now, nextUid>>
    /\ Saved

\* The rhythms the simulator panel is asked for.
RhythmChoices == {"SINUS_BRADYCARDIA", "VT", "ASYSTOLE"}

\* App.tsx calls setPatientRhythm, updatePatientPacingSettings and
\* toggleEcgLeadOff for the selected patient.
SetPatientRhythm ==
    /\ Spend("user")
    /\ selectedPatientId # NoSelection
    /\ \E rhythm \in RhythmChoices, draw \in Draws :
          /\ patients' = setRhythmPatients(patients, selectedPatientId, rhythm)
          /\ simulationDataMap' =
                setRhythmMap(simulationDataMap, selectedPatientId, rhythm, draw)
          /\ DoneWith("setPatientRhythm", selectedPatientId, <<rhythm>>)
    /\ UNCHANGED <<selectedPatientId, timerPatients, organizationName, aiInFlight, now, nextUid>>
    /\ Saved

\* The partial settings the pacer panel sends.
PacingChoices == {[mode |-> "Demand"], [rate |-> 90]}

UpdatePatientPacingSettings ==
    /\ Spend("user")
    /\ selectedPatientId # NoSelection
    /\ \E settings \in PacingChoices :
          /\ patients' = pacingPatients(patients, selectedPatientId, settings)
          /\ Done("updatePatientPacingSettings", selectedPatientId)
    /\ UNCHANGED <<selectedPatientId, simulationDataMap, timerPatients, organizationName,
                   aiInFlight, now, nextUid>>
    /\ Saved

AcknowledgePatientAlerts ==
    /\ Spend("user")
    /\ \E patientId \in registryIds(patients),
          alertTypeToAcknowledge \in {NoSeverity, "critical", "warning"} :
          /\ simulationDataMap' =
                acknowledgeUpdater(simulationDataMap, patientId, alertTypeToAcknowledge)
          /\ DoneWith("acknowledgePatientAlerts", patientId, <<alertTypeToAcknowledge>>)
    /\ UNCHANGED <<patients, selectedPatientId, timerPatients, organizationName,
                   aiInFlight, now, nextUid>>
    /\ Saved

ProvideAlarmFeedback ==
    /\ Spend("user")
    /\ \E patientId \in registryIds(patients),
          feedbackType \in {"true_positive", "false_positive"},
          alertSeverity \in {"critical", "warning"} :
          /\ simulationDataMap' =
                feedbackUpdater(simulationDataMap, patientId, feedbackType, alertSeverity,
                                nextUid, now)
          /\ DoneWith("provideAlarmFeedback", patientId, <<feedbackType, alertSeverity>>)
    /\ nextUid' = nextUid + 1
    /\ UNCHANGED <<patients, selectedPatientId, timerPatients, organizationName,
                   aiInFlight, now>>
    /\ Saved

ToggleEcgLeadOff ==
    /\ Spend("user")
    /\ selectedPatientId # NoSelection
    /\ simulationDataMap' = toggleUpdater(simulationDataMap, selectedPatientId, nextUid, now)
    /\ Done("toggleEcgLeadOff", selectedPatientId)
    /\ nextUid' = nextUid + 1
    /\ UNCHANGED <<patients, selectedPatientId, timerPatients, organizationName,
                   aiInFlight, now>>
    /\ Saved

selectPatient(patientId) ==
    /\ Spend("user")
    /\ selectedPatientId' = patientId
    /\ Done("selectPatient", patientId)
    /\ UNCHANGED <<patients, simulationDataMap, timerPatients, organizationName, storage,
                   aiInFlight, now, nextUid>>

\* PatientRowDisplay onSelect / SimulatorPanel onSelectPatient
SelectPatient == \E patientId \in registryIds(patients) : selectPatient(patientId)

\* The details a caller changes: a personalized low-critical heart-rate
\* threshold.
DetailChoices ==
    {[personalizedThresholds |->
        [heartRate |-> [NoOverrides EXCEPT !.lowCritical = 55], spo2 |-> NoOverrides]]}

updatePatientDetails(patientId) ==
    /\ Spend("user")
    /\ \E details \in DetailChoices :
          /\ patients' = updateDetailsPatients(patients, patientId, details)
          /\ DoneWith("updatePatientDetails", patientId, <<details>>)
    /\ UNCHANGED <<selectedPatientId, simulationDataMap, timerPatients, organizationName,
                   aiInFlight, now, nextUid>>
    /\ Saved

\* ModifyPatientModal -> handleSaveModifiedPatient
UpdatePatientDetails == \E patientId \in registryIds(patients) : updatePatientDetails(patientId)

SignatureChoices == {<<"Motion artifact">>}

updatePatientNoiseSignatures(patientId) ==
    /\ Spend("user")
    /\ \E signatures \in SignatureChoices :
          /\ patients' = noiseSignaturesPatients(patients, patientId, signatures)
          /\ DoneWith("updatePatientNoiseSignatures", patientId, <<signatures>>)
    /\ UNCHANGED <<selectedPatientId, simulationDataMap, timerPatients, organizationName,
                   aiInFlight, now, nextUid>>
    /\ Saved

UpdatePatientNoiseSignatures ==
    \E patientId \in registryIds(patients) : updatePatientNoiseSignatures(patientId)

\* An id no patient of the registry has.
UnknownId == INITIAL_PATIENTS[1].id - 1

\* The public operations called with an id that is not in the registry.
SelectUnknownPatient ==
    /\ UnknownId \notin registryIds(patients)
    /\ selectPatient(UnknownId)

UpdateUnknownPatientDetails ==
    /\ UnknownId \notin registryIds(patients)
    /\ updatePatientDetails(UnknownId)

UpdateUnknownPatientNoiseSignatures ==
    /\ UnknownId \notin registryIds(patients)
    /\ updatePatientNoiseSignatures(UnknownId)

DeleteUnknownPatient ==
    /\ UnknownId \notin registryIds(patients)
    /\ Spend("user")
    /\ simulationDataMap' = mapDelete(simulationDataMap, UnknownId)
    /\ patients' = filterOut(patients, UnknownId)
    /\ selectedPatientId' =
          deleteSelection(selectedPatientId, UnknownId, filterOut(patients, UnknownId),
                          NoSelection)
    /\ Done("deletePatient", UnknownId)
    /\ UNCHANGED <<timerPatients, organizationName, aiInFlight, now, nextUid>>
    /\ Saved

SetUnknownPatientRhythm ==
    /\ UnknownId \notin registryIds(patients)
    /\ Spend("user")
    /\ \E rhythm \in RhythmChoices, draw \in Draws :
          /\ patients' = setRhythmPatients(patients, UnknownId, rhythm)
          /\ simulationDataMap' = setRhythmMap(simulationDataMap, UnknownId, rhythm, draw)
          /\ DoneWith("setPatientRhythm", UnknownId, <<rhythm>>)
    /\ UNCHANGED <<selectedPatientId, timerPatients, organizationName, aiInFlight, now, nextUid>>
    /\ Saved

UpdateUnknownPatientPacingSettings ==
    /\ UnknownId \notin registryIds(patients)
    /\ Spend("user")
    /\ \E settings \in PacingChoices :
          /\ patients' = pacingPatients(patients, UnknownId, settings)
          /\ Done("updatePatientPacingSettings", UnknownId)
    /\ UNCHANGED <<selectedPatientId, simulationDataMap, timerPatients, organizationName,
                   aiInFlight, now, nextUid>>
    /\ Saved

AcknowledgeUnknownPatientAlerts ==
    /\ UnknownId \notin registryIds(patients)
    /\ Spend("user")
    /\ \E alertTypeToAcknowledge \in {NoSeverity, "critical", "warning"} :
          /\ simulationDataMap' =
                acknowledgeUpdater(simulationDataMap, UnknownId, alertTypeToAcknowledge)
          /\ DoneWith("acknowledgePatientAlerts", UnknownId, <<alertTypeToAcknowledge>>)
    /\ UNCHANGED <<patients, selectedPatientId, timerPatients, organizationName,
                   aiInFlight, now, nextUid>>
    /\ Saved

ProvideUnknownPatientAlarmFeedback ==
    /\ UnknownId \notin registryIds(patients)
    /\ Spend("user")
    /\ \E feedbackType \in {"true_positive", "false_positive"},
          alertSeverity \in {"critical", "warning"} :
          /\ simulationDataMap' =
                feedbackUpdater(simulationDataMap, UnknownId, feedbackType, alertSeverity,
                                nextUid, now)
          /\ DoneWith("provideAlarmFeedback", UnknownId, <<feedbackType, alertSeverity>>)
    /\ nextUid' = nextUid + 1
    /\ UNCHANGED <<patients, selectedPatientId, timerPatients, organizationName,
                   aiInFlight, now>>
    /\ Saved

ToggleUnknownPatientEcgLeadOff ==
    /\ UnknownId \notin registryIds(patients)
    /\ Spend("user")
    /\ simulationDataMap' = toggleUpdater(simulationDataMap, UnknownId, nextUid, now)
    /\ Done("toggleEcgLeadOff", UnknownId)
    /\ nextUid' = nextUid + 1
    /\ UNCHANGED <<patients, selectedPatientId, timerPatients, organizationName,
                   aiInFlight, now>>
    /\ Saved

(***************************************************************************)
(* Specification of the registry: login, timers, ticks, analyses, add and  *)
(* delete, for an organization with one stored patient.                    *)
(***************************************************************************)
RegistryAllowance ==
    [login |-> MaxLogins, clock |-> 0, ecg |-> MaxRegistryEcgTicks,
     vitals |-> MaxRegistryVitalsTicks, add |-> MaxAdds, delete |-> MaxDeletes, user |-> 0]

Init == InitWith({unresolvedSession(INITIAL_PATIENTS[1])}, RegistryAllowance)

Next ==
    \/ Login
    \/ ReestablishTimers
    \/ EcgTick
    \/ VitalsTick
    \/ AIMarkLoading
    \/ AIResolve
    \/ AddPatient
    \/ DeletePatient

Spec == Init /\ [][Next]_vars

(***************************************************************************)
(* Specification of the waveform: a fresh installation, the ECG interval   *)
(* and the simulator panel of the selected patient.                        *)
(***************************************************************************)
WaveformAllowance ==
    [login |-> MaxLogins, clock |-> MaxClockSteps, ecg |-> MaxEcgTicks, vitals |-> 0,
     add |-> 0, delete |-> 0, user |-> MaxUserOps]

InitWaveform == InitWith({NoData}, WaveformAllowance)

NextWaveform ==
    \/ Login
    \/ ReestablishTimers
    \/ PassTime
    \/ EcgTick
    \/ SetPatientRhythm
    \/ UpdatePatientPacingSettings
    \/ ToggleEcgLeadOff

SpecWaveform == InitWaveform /\ [][NextWaveform]_vars

(***************************************************************************)
(* Specification of the alerts: one stored patient, both intervals and the *)
(* operations on alerts.                                                   *)
(***************************************************************************)
AlertsAllowance ==
    [login |-> MaxLogins, clock |-> 0, ecg |-> MaxAlertEcgTicks, vitals |-> MaxVitalsTicks,
     add |-> 0, delete |-> 0, user |-> MaxUserOps]

InitAlerts == InitWith({previousSession(INITIAL_PATIENTS[3])}, AlertsAllowance)

NextAlerts ==
    \/ Login
    \/ ReestablishTimers
    \/ EcgTick
    \/ VitalsTick
    \/ ToggleEcgLeadOff
    \/ AcknowledgePatientAlerts
    \/ ProvideAlarmFeedback

SpecAlerts == InitAlerts /\ [][NextAlerts]_vars

(***************************************************************************)
(* Specification of the analyses: one stored patient whose analysis is     *)
(* due, the two intervals and the resolutions.                             *)
(***************************************************************************)
AnalysisAllowance ==
    [login |-> MaxLogins, clock |-> 0, ecg |-> MaxRegistryEcgTicks, vitals |-> MaxVitalsTicks,
     add |-> 0, delete |-> 0, user |-> 0]

InitAnalysis == InitWith({unresolvedSession(INITIAL_PATIENTS[1])}, AnalysisAllowance)

NextAnalysis ==
    \/ Login
    \/ ReestablishTimers
    \/ EcgTick
    \/ VitalsTick
    \/ AIMarkLoading
    \/ AIResolve

SpecAnalysis == InitAnalysis /\ [][NextAnalysis]_vars

\* The same with the promises settling: the timeout of every mock analysis
\* fires and React applies every queued update.
SpecAnalysisLive == SpecAnalysis /\ WF_vars(AIMarkLoading) /\ WF_vars(AIResolve)

(***************************************************************************)
(* Specification of the lead: one stored patient, the lead-off toggle and  *)
(* the acknowledgement of its alert.                                       *)
(***************************************************************************)
LeadOffAllowance ==
    [login |-> MaxLogins, clock |-> 0, ecg |-> 0, vitals |-> MaxLeadOffVitalsTicks,
     add |-> 0, delete |-> 0, user |-> MaxLeadOffOps]

InitLeadOff == InitWith({previousSession(INITIAL_PATIENTS[3])}, LeadOffAllowance)

NextLeadOff ==
    \/ Login
    \/ ReestablishTimers
    \/ VitalsTick
    \/ ToggleEcgLeadOff
    \/ AcknowledgePatientAlerts

SpecLeadOff == InitLeadOff /\ [][NextLeadOff]_vars

(***************************************************************************)
(* Specification of the public operations: a fresh installation, the       *)
(* clock, add, delete, select, and every operation called with an id the   *)
(* registry does not hold.  No interval fires, so the closures of the      *)
(* intervals are left out.                                                 *)
(***************************************************************************)
ApiAllowance ==
    [login |-> MaxLogins, clock |-> MaxClockSteps, ecg |-> 0, vitals |-> 0,
     add |-> MaxApiAdds, delete |-> MaxDeletes, user |-> MaxApiCalls]

InitApi == InitWith({NoData}, ApiAllowance)

NextApi ==
    \/ Login
    \/ PassTime
    \/ AddPatient
    \/ DeletePatient
    \/ SelectPatient
    \/ UpdatePatientDetails
    \/ UpdatePatientNoiseSignatures
    \/ SelectUnknownPatient
    \/ UpdateUnknownPatientDetails
    \/ UpdateUnknownPatientNoiseSignatures
    \/ DeleteUnknownPatient
    \/ SetUnknownPatientRhythm
    \/ UpdateUnknownPatientPacingSettings
    \/ AcknowledgeUnknownPatientAlerts
    \/ ProvideUnknownPatientAlarmFeedback
    \/ ToggleUnknownPatientEcgLeadOff

SpecApi == InitApi /\ [][NextApi]_vars

(***************************************************************************)
(* Specification of the rhythm: one stored patient, both intervals, the    *)
(* rhythm control and a change of the personalized thresholds.             *)
(***************************************************************************)
RhythmAllowance ==
    [login |-> MaxLogins, clock |-> 0, ecg |-> MaxRegistryEcgTicks,
     vitals |-> MaxRhythmVitalsTicks, add |-> 0, delete |-> 0, user |-> MaxUserOps]

InitRhythm == InitWith({previousSession(INITIAL_PATIENTS[1])}, RhythmAllowance)

NextRhythm ==
    \/ Login
    \/ ReestablishTimers
    \/ EcgTick
    \/ VitalsTick
    \/ SetPatientRhythm
    \/ UpdatePatientDetails

SpecRhythm == InitRhythm /\ [][NextRhythm]_vars

(***************************************************************************)
(* Specification of asystole: one stored patient, the ECG interval for     *)
(* longer than one beat, and one change of rhythm.                         *)
(***************************************************************************)
AsystoleAllowance ==
    [login |-> MaxLogins, clock |-> 0, ecg |-> MaxAsystoleTicks, vitals |-> 0,
     add |-> 0, delete |-> 0, user |-> MaxAsystoleOps]

InitAsystole == InitWith({previousSession(INITIAL_PATIENTS[1])}, AsystoleAllowance)

NextAsystole ==
    \/ Login
    \/ ReestablishTimers
    \/ EcgTick
    \/ SetPatientRhythm

SpecAsystole == InitAsystole /\ [][NextAsystole]_vars

(***************************************************************************)
(* The loops, the AI callbacks and the alert operations on one patient     *)
(* whose high-warning heart-rate threshold was personalized to 99 in an    *)
(* earlier session that closed before its analysis resolved.               *)
(***************************************************************************)
watchedPatient ==
    [INITIAL_PATIENTS[1] EXCEPT
        !.personalizedThresholds =
            [heartRate |-> [NoOverrides EXCEPT !.highWarning = 99], spo2 |-> NoOverrides]]

CallbacksAllowance ==
    [login |-> MaxLogins, clock |-> 0, ecg |-> MaxAlertEcgTicks, vitals |-> MaxVitalsTicks,
     add |-> 0, delete |-> 0, user |-> MaxUserOps]

InitCallbacks == InitWith({unresolvedSession(watchedPatient)}, CallbacksAllowance)

NextCallbacks ==
    \/ Login
    \/ ReestablishTimers
    \/ EcgTick
    \/ VitalsTick
    \/ AIMarkLoading
    \/ AIResolve
    \/ ToggleEcgLeadOff
    \/ AcknowledgePatientAlerts
    \/ ProvideAlarmFeedback

SpecCallbacks == InitCallbacks /\ [][NextCallbacks]_vars

(***************************************************************************)
(* Vitals logging: a fresh installation, and a session that ran long       *)
(* enough to fill the vitals log (one entry per vitals tick that came more *)
(* than a minute after the newest entry; times are counted from the epoch  *)
(* of the model, so the entries logged before it carry negative stamps).   *)
(***************************************************************************)
\* The full log: 200 appends that came 61 s apart, the newest 60 s ago.
fullLog(metrics) ==
    LET period == AUTO_LOG_VITALS_INTERVAL_SECONDS * 1000 + SIMULATION_VITALS_INTERVAL_MS
        tLast == InitialNow - AUTO_LOG_VITALS_INTERVAL_SECONDS * 1000
    IN [i \in 1..MAX_LOGGED_VITALS |->
           [timestamp |-> tLast - (MAX_LOGGED_VITALS - i) * period, metrics |-> metrics]]

fullLogSession(p) ==
    LET s == previousSession(p)
    IN [s EXCEPT !.persistentPatientData[p.id].loggedVitals = fullLog(@[1].metrics)]

VitalsLogAllowance ==
    [login |-> MaxLogins, clock |-> MaxClockSteps, ecg |-> 0, vitals |-> MaxVitalsTicks,
     add |-> 0, delete |-> 0, user |-> 0]

InitVitalsLog == InitWith({NoData, fullLogSession(INITIAL_PATIENTS[1])}, VitalsLogAllowance)

NextVitalsLog ==
    \/ Login
    \/ ReestablishTimers
    \/ PassTime
    \/ VitalsTick
    \/ AIMarkLoading
    \/ AIResolve

SpecVitalsLog == InitVitalsLog /\ [][NextVitalsLog]_vars

(***************************************************************************)
(* The high-frequency loop on a stored patient in third-degree AV block.   *)
(***************************************************************************)
blockPatient == [INITIAL_PATIENTS[1] EXCEPT !.activeRhythm = "THIRD_DEGREE_AV_BLOCK"]

HeartBlockAllowance ==
    [login |-> MaxLogins, clock |-> MaxBlockClockSteps, ecg |-> MaxBlockEcgTicks, vitals |-> 0,
     add |-> 0, delete |-> 0, user |-> 0]

InitHeartBlock == InitWith({previousSession(blockPatient)}, HeartBlockAllowance)

NextHeartBlock ==
    \/ Login
    \/ ReestablishTimers
    \/ PassTime
    \/ EcgTick

SpecHeartBlock == InitHeartBlock /\ [][NextHeartBlock]_vars

(***************************************************************************)
(* The low-frequency loop across rhythm changes and drift intervals.       *)
(***************************************************************************)
RespirationAllowance ==
    [login |-> MaxLogins, clock |-> MaxClockSteps, ecg |-> 0, vitals |-> MaxVitalsTicks,
     add |-> 0, delete |-> 0, user |-> MaxUserOps]

InitRespiration == InitWith({previousSession(INITIAL_PATIENTS[1])}, RespirationAllowance)

NextRespiration ==
    \/ Login
    \/ ReestablishTimers
    \/ PassDriftInterval
    \/ VitalsTick
    \/ SetPatientRhythm

SpecRespiration == InitRespiration /\ [][NextRespiration]_vars

(***************************************************************************)
(* The high-frequency loop on a stored patient in asystole, with the       *)
(* rhythm and pacing panels; the ECG interval keeps firing.                *)
(***************************************************************************)
asystolePatient == [INITIAL_PATIENTS[1] EXCEPT !.activeRhythm = "ASYSTOLE"]

RecoveryAllowance ==
    [login |-> MaxLogins, clock |-> 0, ecg |-> MaxRecoveryEcgTicks, vitals |-> 0,
     add |-> 0, delete |-> 0, user |-> MaxUserOps]

InitRecovery == InitWith({previousSession(asystolePatient)}, RecoveryAllowance)

NextRecovery ==
    \/ Login
    \/ ReestablishTimers
    \/ EcgTick
    \/ SetPatientRhythm
    \/ UpdatePatientPacingSettings

SpecRecovery == InitRecovery /\ [][NextRecovery]_vars /\ WF_vars(EcgTick)

(***************************************************************************)
(* Properties                                                              *)
(***************************************************************************)
\* The patient record the intervals work with, when the closures are current.
registered(patientId) == findPatient(patients, patientId)[1]

\* (metric, severity, direction) of a threshold alert.
conditionOf(a) == <<a.metric, a.severity, a.message[2]>>

isThresholdAlert(a) == Len(a.message) = 3

\* The threshold conditions the alert engine finds triggered for these metrics.
triggeredConditions(metrics, patient) ==
    { c \in { <<"Heart Rate", "critical", "Low">>, <<"Heart Rate", "warning", "Low">>,
              <<"Heart Rate", "critical", "High">>, <<"Heart Rate", "warning", "High">>,
              <<"SpO2", "critical", "Low">>, <<"SpO2", "warning", "Low">> } :
        LET type == IF c[3] = "Low" THEN "low" ELSE "high"
        IN IF c[1] = "Heart Rate"
           THEN isTriggered(metrics.heartRate,
                    thresholdFor(ALERT_THRESHOLDS.HEART_RATE,
                                 patient.personalizedThresholds.heartRate, c[2], type), type)
           ELSE isTriggered(metrics.spo2,
                    thresholdFor(ALERT_THRESHOLDS.SPO2,
                                 patient.personalizedThresholds.spo2, c[2], type), type) }

alertsOfCondition(simData, c) ==
    {i \in 1..Len(simData.alerts) :
        isThresholdAlert(simData.alerts[i]) /\ conditionOf(simData.alerts[i]) = c}

\* C1: when a (metric, severity, direction) condition is triggered for a patient
\* on two consecutive firings of the vitals interval, exactly one alert for that
\* condition is on the patient's list afterwards.
C1_OneAlertPerCondition ==
    [][ (lastOp.op = "vitalsTick" /\ lastOp'.op = "vitalsTick" /\ timerPatients = patients)
        => \A patientId \in DOMAIN simulationDataMap \cap registryIds(patients) :
             \A c \in triggeredConditions(simulationDataMap[patientId].metrics,
                                          registered(patientId))
                      \cap triggeredConditions(simulationDataMap'[patientId].metrics,
                                               registered(patientId)) :
                Cardinality(alertsOfCondition(simulationDataMap'[patientId], c)) = 1 ]_vars

\* C2: in every reachable state the keys of the simulation-state map are the
\* patient ids of the registry.
C2_MapKeysAreRegistryIds ==
    DOMAIN simulationDataMap = registryIds(patients)

\* C3: the resolution of an analysis whose patient has no entry in the map any
\* more (the patient was deleted while the analysis was in flight) leaves the
\* map and the registry as they are, whether it succeeds or fails.
C3_ResolutionAfterDeleteDiscarded ==
    [][ (lastOp'.op = "aiResolve" /\ lastOp'.id \notin DOMAIN simulationDataMap)
        => /\ simulationDataMap' = simulationDataMap
           /\ patients' = patients
           /\ \A i \in 1..Len(aiInFlight) :
                 aiInFlight[i].patient.id = lastOp'.id
                 => analysisFailedUpdater(simulationDataMap, aiInFlight[i].patient, now)
                       = simulationDataMap ]_vars

\* C3 witness: an analysis has just resolved for a patient who was deleted.
C3_Witness ==
    /\ lastOp.op = "aiResolve"
    /\ lastOp.id \notin registryIds(patients)
    /\ lastOp.id \notin DOMAIN simulationDataMap
    /\ patients # <<>>

analysesInFlight(patientId) ==
    {i \in 1..Len(aiInFlight) : aiInFlight[i].patient.id = patientId}

\* C4: at most one analysis is in flight per patient at any time.
C4_OneAnalysisInFlight ==
    \A patientId \in registryIds(patients) \cup DOMAIN simulationDataMap :
        Cardinality(analysesInFlight(patientId)) <= 1

pacedPattern == ECG_PACER_SPIKE_PATTERN \o ECG_PACED_QRS_PATTERN

\* C5: for a patient with a demand pacer at rate R whose rhythm's intrinsic rate
\* (its whole range, and the target drawn from it) is below R, the beat that
\* comes due at an ECG tick is paced: the pattern loaded is spike + paced QRS and
\* the countdown restarts from R.
C5_DemandPacerCaptures ==
    [][ (lastOp'.op = "ecgTick" /\ timerPatients = patients)
        => \A patientId \in DOMAIN simulationDataMap \cap registryIds(patients) :
             LET p == registered(patientId)
                 sim == simulationDataMap[patientId]
             IN (/\ p.pacerSettings.mode = "Demand"
                 /\ RHYTHM_PARAMS[p.activeRhythm].hrMax < p.pacerSettings.rate
                 /\ sim.currentTargetHeartRate < p.pacerSettings.rate
                 /\ ~sim.isLeadOff
                 /\ sim.ecgBufferIndex = 0
                 /\ rrNotPositive(sim.nextRRIntervalPoints))
                => /\ simulationDataMap'[patientId].ecgPatternBuffer = pacedPattern
                   /\ simulationDataMap'[patientId].nextRRIntervalPoints =
                         rrDecrement(rrIntervalPoints(p.pacerSettings.rate)) ]_vars

newest(buffer) == buffer[Len(buffer)].time

\* C6: at every ECG tick, for each of the three buffers of a patient, the newest
\* sample's sequence index is the previous newest sample's index plus one.
C6_IndexAdvancesByOne ==
    [][ lastOp'.op = "ecgTick"
        => \A patientId \in DOMAIN simulationDataMap \cap DOMAIN simulationDataMap' :
             LET before == simulationDataMap[patientId]
                 after == simulationDataMap'[patientId]
             IN /\ newest(after.ecgData) = newest(before.ecgData) + 1
                /\ newest(after.spo2WaveData) = newest(before.spo2WaveData) + 1
                /\ newest(after.respWaveData) = newest(before.respWaveData) + 1 ]_vars

\* C7: the ECG, SpO2 and respiration buffers of every patient have length
\* 400 = display window x samples per second in every reachable state.
C7_BuffersKeepLength ==
    /\ MAX_ECG_DATA_POINTS = 400
    /\ \A patientId \in DOMAIN simulationDataMap :
          /\ Len(simulationDataMap[patientId].ecgData) = MAX_ECG_DATA_POINTS
          /\ Len(simulationDataMap[patientId].spo2WaveData) = MAX_ECG_DATA_POINTS
          /\ Len(simulationDataMap[patientId].respWaveData) = MAX_ECG_DATA_POINTS

\* C7 witness: a patient went through a normal tick and then a lead-off tick.
C7_Witness ==
    /\ lastOp.op = "ecgTick"
    /\ \E patientId \in DOMAIN simulationDataMap :
          /\ simulationDataMap[patientId].isLeadOff
          /\ simulationDataMap[patientId].ecgCurrentTime >= 2
          /\ simulationDataMap[patientId].ecgBufferIndex > 0
          /\ Len(simulationDataMap[patientId].ecgData) = MAX_ECG_DATA_POINTS

\* PatientRowDisplay: alerts.filter(a => !acknowledgedAlertIds.has(a.id))
unacknowledgedAlerts(view) ==
    {view.alerts[i].id : i \in {j \in 1..Len(view.alerts) :
        view.alerts[j].id \notin view.acknowledgedAlertIds}}

\* C8: a call of acknowledgePatientAlerts (all, critical or warning) leaves the
\* alerts of every patient as they are; the set of unacknowledged alerts can
\* only shrink.
C8_AcknowledgeKeepsAlerts ==
    [][ lastOp'.op = "acknowledgePatientAlerts"
        => /\ DOMAIN simulationDataMap' = DOMAIN simulationDataMap
           /\ \A patientId \in DOMAIN simulationDataMap :
                 /\ simulationDataMap'[patientId].alerts = simulationDataMap[patientId].alerts
                 /\ unacknowledgedAlerts(simulationDataMap'[patientId])
                       \subseteq unacknowledgedAlerts(simulationDataMap[patientId]) ]_vars

\* C8 witness: a patient with a critical and a warning alert, none acknowledged,
\* has just had some of them acknowledged.
C8_Witness ==
    /\ lastOp.op = "acknowledgePatientAlerts"
    /\ lastOp.rep = 1
    /\ lastOp.id \in DOMAIN simulationDataMap
    /\ Len(lastOp.pre.alerts) >= 2
    /\ lastOp.pre.acknowledgedAlertIds = {}
    /\ simulationDataMap[lastOp.id].alerts = lastOp.pre.alerts
    /\ simulationDataMap[lastOp.id].acknowledgedAlertIds # {}
    /\ unacknowledgedAlerts(simulationDataMap[lastOp.id]) # {}

\* The alert state an observer sees: every active alert by what it says, with
\* whether it is unacknowledged.
observedAlerts(view) ==
    { [message |-> view.alerts[i].message, severity |-> view.alerts[i].severity,
       metric |-> view.alerts[i].metric,
       unacknowledged |-> view.alerts[i].id \notin view.acknowledgedAlertIds]
      : i \in 1..Len(view.alerts) }

afterTwoToggles ==
    /\ lastOp.op = "toggleEcgLeadOff"
    /\ lastOp.rep = 2
    /\ lastOp.pre.present
    /\ lastOp.id \in DOMAIN simulationDataMap

\* C9 as stated: after two calls of toggleEcgLeadOff in a row, isLeadOff and the
\* observed alert state are what they were before the first call, from any
\* starting state.
C9_DoubleToggleRestores ==
    afterTwoToggles
    => /\ simulationDataMap[lastOp.id].isLeadOff = lastOp.pre.isLeadOff
       /\ observedAlerts(alertView(simulationDataMap, lastOp.id)) = observedAlerts(lastOp.pre)

leadOffAlertAcknowledged(view) ==
    \E i \in 1..Len(view.alerts) :
        isLeadOffAlert(view.alerts[i]) /\ view.alerts[i].id \in view.acknowledgedAlertIds

\* C9 amended: two calls in a row restore isLeadOff always; starting with the
\* lead on they restore the alerts and the acknowledged set exactly; starting
\* with the lead off and its alert unacknowledged they restore the observed
\* alert state; starting with the lead off and its alert acknowledged they leave
\* a lead-off alert that is unacknowledged.
C9_DoubleToggleRestoresUnlessAcknowledged ==
    afterTwoToggles
    => LET after == alertView(simulationDataMap, lastOp.id)
       IN /\ after.isLeadOff = lastOp.pre.isLeadOff
          /\ ~lastOp.pre.isLeadOff => after = lastOp.pre
          /\ (lastOp.pre.isLeadOff /\ ~leadOffAlertAcknowledged(lastOp.pre))
                => observedAlerts(after) = observedAlerts(lastOp.pre)
          /\ (lastOp.pre.isLeadOff /\ leadOffAlertAcknowledged(lastOp.pre))
                => /\ ~leadOffAlertAcknowledged(after)
                   /\ \E i \in 1..Len(after.alerts) : isLeadOffAlert(after.alerts[i])

\* C9 witness: two toggles in a row were applied to a patient whose lead was on
\* and who had alerts.
C9_Witness ==
    /\ afterTwoToggles
    /\ ~lastOp.pre.isLeadOff
    /\ Len(lastOp.pre.alerts) > 0
    /\ simulationDataMap[lastOp.id].alerts = lastOp.pre.alerts

\* C10: an ECG tick of a patient whose lead is off appends an ECG sample of
\* value 0.
C10_LeadOffAppendsZero ==
    [][ lastOp'.op = "ecgTick"
        => \A patientId \in DOMAIN simulationDataMap \cap DOMAIN simulationDataMap' :
             simulationDataMap[patientId].isLeadOff
             => simulationDataMap'[patientId].ecgData[MAX_ECG_DATA_POINTS].value = 0 ]_vars

\* C10 witness: a lead-off tick has run for a patient in VT with a partially
\* walked pattern whose next value is not 0.
C10_Witness ==
    /\ lastOp.op = "ecgTick"
    /\ \E patientId \in DOMAIN simulationDataMap \cap registryIds(patients) :
          LET sim == simulationDataMap[patientId]
          IN /\ sim.isLeadOff
             /\ registered(patientId).activeRhythm = "VT"
             /\ sim.ecgBufferIndex > 0
             /\ sim.ecgBufferIndex < Len(sim.ecgPatternBuffer)
             /\ sim.ecgPatternBuffer[sim.ecgBufferIndex + 1] # 0
             /\ sim.ecgCurrentTime >= 2
             /\ sim.ecgData[MAX_ECG_DATA_POINTS].value = 0

\* The alerts a feedback call affects: active, of the given severity and not
\* acknowledged, by position in the list.
affectedAlerts(simData, alertSeverity) ==
    {i \in 1..Len(simData.alerts) :
        /\ simData.alerts[i].severity = alertSeverity
        /\ simData.alerts[i].id \notin simData.acknowledgedAlertIds}

\* The feedback records about the alert at position i of the list.
recordsOf(log, simData, i, patientId, feedbackType) ==
    {k \in 1..Len(log) :
        /\ log[k].patientId = patientId
        /\ log[k].feedback = feedbackType
        /\ log[k].alertSnapshot =
              [message |-> simData.alerts[i].message, severity |-> simData.alerts[i].severity,
               metric |-> simData.alerts[i].metric,
               originalTimestamp |-> simData.alerts[i].timestamp]}

\* C13: a call of provideAlarmFeedback(id, label, severity) keeps the feedback
\* log and appends to it exactly one record, with the patient id, the alert's
\* snapshot and the label, for each active unacknowledged alert of the severity;
\* it adds exactly the ids of those alerts to the acknowledged set; a second call
\* in a row with the same arguments appends nothing.
C13_FeedbackOncePerUnacknowledgedAlert ==
    [][ (lastOp'.op = "provideAlarmFeedback" /\ lastOp'.id \in DOMAIN simulationDataMap)
        => LET before == simulationDataMap[lastOp'.id]
               after == simulationDataMap'[lastOp'.id]
               affected == affectedAlerts(before, lastOp'.args[2])
               appended == SubSeq(after.alarmFeedbackLog, Len(before.alarmFeedbackLog) + 1,
                                  Len(after.alarmFeedbackLog))
           IN /\ SubSeq(after.alarmFeedbackLog, 1, Len(before.alarmFeedbackLog))
                    = before.alarmFeedbackLog
              /\ Len(appended) = Cardinality(affected)
              /\ \A i \in affected :
                    Cardinality(recordsOf(appended, before, i, lastOp'.id, lastOp'.args[1])) >= 1
              /\ after.acknowledgedAlertIds =
                    before.acknowledgedAlertIds \cup {before.alerts[i].id : i \in affected}
              /\ lastOp'.rep >= 2 => after.alarmFeedbackLog = before.alarmFeedbackLog ]_vars

\* C13 witness: feedback on the warning alerts of a patient who also has a
\* critical alert was given twice in a row; the log holds one record.
C13_Witness ==
    /\ lastOp.op = "provideAlarmFeedback"
    /\ lastOp.rep = 2
    /\ lastOp.args[2] = "warning"
    /\ lastOp.id \in DOMAIN simulationDataMap
    /\ \E i \in 1..Len(lastOp.pre.alerts) : lastOp.pre.alerts[i].severity = "critical"
    /\ Cardinality(affectedAlerts(lastOp.pre, "warning")) = 1
    /\ Len(simulationDataMap[lastOp.id].alarmFeedbackLog) = 1

\* The lead-off alert is among the alerts a feedback call affects.
leadOffAlertAffected(simData, alertSeverity) ==
    \E i \in affectedAlerts(simData, alertSeverity) : isLeadOffAlert(simData.alerts[i])

\* C14: a call of provideAlarmFeedback that affects the lead-off alert sets
\* isLeadOff to false and takes the lead-off alert off the list, leaving the
\* other alerts; a call that does not affect it leaves isLeadOff and the alerts
\* as they are.
C14_FeedbackOnLeadOffReconnects ==
    [][ (lastOp'.op = "provideAlarmFeedback" /\ lastOp'.id \in DOMAIN simulationDataMap)
        => LET before == simulationDataMap[lastOp'.id]
               after == simulationDataMap'[lastOp'.id]
           IN IF leadOffAlertAffected(before, lastOp'.args[2])
              THEN /\ ~after.isLeadOff
                   /\ after.alerts = SelectSeq(before.alerts, LAMBDA a : ~isLeadOffAlert(a))
              ELSE /\ after.isLeadOff = before.isLeadOff
                   /\ after.alerts = before.alerts ]_vars

\* C14 witness: feedback on the critical alerts was given while the lead was off
\* and its alert unacknowledged; the lead is on again and the alert is gone.
C14_Witness ==
    /\ lastOp.op = "provideAlarmFeedback"
    /\ lastOp.rep = 1
    /\ lastOp.args[2] = "critical"
    /\ lastOp.pre.isLeadOff
    /\ leadOffAlertAffected(lastOp.pre, "critical")
    /\ lastOp.id \in DOMAIN simulationDataMap
    /\ ~simulationDataMap[lastOp.id].isLeadOff
    /\ ~(\E i \in 1..Len(simulationDataMap[lastOp.id].alerts) :
            isLeadOffAlert(simulationDataMap[lastOp.id].alerts[i]))

\* The ids of the active alerts a severity filter matches.
matchingAlertIds(simData, filter) ==
    {simData.alerts[i].id : i \in {j \in 1..Len(simData.alerts) :
        filter = NoSeverity \/ simData.alerts[j].severity = filter}}

\* C15: a call of acknowledgePatientAlerts(id, filter) adds to the acknowledged
\* set exactly the ids of the active alerts the filter matches (all of them
\* without a filter) and changes nothing else; a second call in a row with the
\* same arguments leaves the state as the first one left it.
C15_AcknowledgeExactAndIdempotent ==
    [][ (lastOp'.op = "acknowledgePatientAlerts" /\ lastOp'.id \in DOMAIN simulationDataMap)
        => /\ simulationDataMap' =
                 [simulationDataMap EXCEPT ![lastOp'.id].acknowledgedAlertIds =
                     @ \cup matchingAlertIds(simulationDataMap[lastOp'.id], lastOp'.args[1])]
           /\ patients' = patients
           /\ selectedPatientId' = selectedPatientId
           /\ lastOp'.rep >= 2 => simulationDataMap' = simulationDataMap ]_vars

\* C15 witness: the warning alerts of a patient who also has an unacknowledged
\* critical alert were acknowledged twice in a row.
C15_Witness ==
    /\ lastOp.op = "acknowledgePatientAlerts"
    /\ lastOp.rep = 2
    /\ lastOp.args = <<"warning">>
    /\ lastOp.id \in DOMAIN simulationDataMap
    /\ lastOp.pre.acknowledgedAlertIds = {}
    /\ simulationDataMap[lastOp.id].acknowledgedAlertIds
          = matchingAlertIds(lastOp.pre, "warning")
    /\ simulationDataMap[lastOp.id].acknowledgedAlertIds # {}
    /\ unacknowledgedAlerts(simulationDataMap[lastOp.id]) # {}

\* The position of a patient in the registry.
positionOf(list, patientId) ==
    CHOOSE i \in 1..Len(list) :
        list[i].id = patientId /\ \A j \in 1..Len(list) : list[j].id = patientId => i <= j

\* C11: deletePatient(id) for a patient of the registry removes the registry
\* entry and the simulation state; when id was selected, the selection becomes
\* the patient now at the deleted patient's position, or the new last patient
\* when that position is gone, or null when no patient remains; otherwise the
\* selection stays.
C11_DeleteSelectsSamePosition ==
    [][ (lastOp'.op = "deletePatient" /\ lastOp'.id \in registryIds(patients))
        => LET position == positionOf(patients, lastOp'.id)
           IN /\ lastOp'.id \notin registryIds(patients')
              /\ lastOp'.id \notin DOMAIN simulationDataMap'
              /\ selectedPatientId # lastOp'.id => selectedPatientId' = selectedPatientId
              /\ selectedPatientId = lastOp'.id =>
                    selectedPatientId' =
                        IF Len(patients') = 0 THEN NoSelection
                        ELSE IF position <= Len(patients') THEN patients'[position].id
                        ELSE patients'[Len(patients')].id ]_vars

\* The operations that take the id of an existing patient.
OperationsOnPatient ==
    {"selectPatient", "updatePatientDetails", "updatePatientPacingSettings",
     "updatePatientNoiseSignatures", "setPatientRhythm", "acknowledgePatientAlerts",
     "provideAlarmFeedback", "toggleEcgLeadOff", "deletePatient"}

\* C12: a public operation called with an id that is not in the registry leaves
\* the registry, the simulation-state map and the selection as they are.
C12_UnknownIdIsNoOp ==
    [][ (lastOp'.op \in OperationsOnPatient /\ lastOp'.id \notin registryIds(patients))
        => /\ patients' = patients
           /\ simulationDataMap' = simulationDataMap
           /\ selectedPatientId' = selectedPatientId ]_vars

\* C19: addPatient gives the new patient an id no patient of the registry has.
C19_AddPatientIdIsFresh ==
    [][ lastOp'.op = "addPatient" => lastOp'.id \notin registryIds(patients) ]_vars

\* C20: addPatient appends one patient to the registry, with rhythm NSR, pacer
\* off and no personalized thresholds; it gives the patient a simulation state
\* without alerts, acknowledgements, logged vitals or feedback, with the lead
\* on, the analysis pending and not loading, and the heart rate equal to a
\* target drawn from the NSR range; it selects the patient.
C20_AddPatientCreatesFreshState ==
    [][ lastOp'.op = "addPatient"
        => /\ Len(patients') = Len(patients) + 1
           /\ SubSeq(patients', 1, Len(patients)) = patients
           /\ LET p == patients'[Len(patients')]
              IN /\ p.id = lastOp'.id
                 /\ p.activeRhythm = "NSR"
                 /\ p.pacerSettings.mode = "Off"
                 /\ p.personalizedThresholds = NoPersonalizedThresholds
           /\ selectedPatientId' = lastOp'.id
           /\ lastOp'.id \in DOMAIN simulationDataMap'
           /\ LET sim == simulationDataMap'[lastOp'.id]
              IN /\ sim.alerts = <<>>
                 /\ sim.acknowledgedAlertIds = {}
                 /\ sim.loggedVitals = <<>>
                 /\ sim.alarmFeedbackLog = <<>>
                 /\ ~sim.isLeadOff
                 /\ sim.heartSenseAIState.riskLevel = "Pending"
                 /\ ~sim.heartSenseAIState.isLoading
                 /\ sim.metrics.heartRate = sim.currentTargetHeartRate
                 /\ sim.currentTargetHeartRate \in
                       RHYTHM_PARAMS.NSR.hrMin .. RHYTHM_PARAMS.NSR.hrMax ]_vars

\* C20 witness: a patient was added to the three patients of the fresh
\* installation and is selected.
C20_Witness ==
    /\ lastOp.op = "addPatient"
    /\ Len(patients) = Len(INITIAL_PATIENTS) + 1
    /\ patients[Len(patients)].id = lastOp.id
    /\ selectedPatientId = lastOp.id
    /\ lastOp.id \in DOMAIN simulationDataMap
    /\ simulationDataMap[lastOp.id].metrics.heartRate = RHYTHM_PARAMS.NSR.hrMax

\* C16: setPatientRhythm(id, r) for a patient of the registry sets the patient's
\* active rhythm to r and nothing else in the registry; in the same step it sets
\* currentTargetHeartRate to a rate of r's range and nothing else in the
\* simulation state; the vitals tick that comes next moves the displayed heart
\* rate toward that target, whatever the beat countdown is.
C16_SetRhythmRefreshesTarget ==
    [][ (lastOp'.op = "setPatientRhythm"
         /\ lastOp'.id \in registryIds(patients) \cap DOMAIN simulationDataMap)
        => LET id == lastOp'.id
               r == lastOp'.args[1]
               after == simulationDataMap'[id]
               target == after.currentTargetHeartRate
           IN /\ Len(patients') = Len(patients)
              /\ \A i \in 1..Len(patients) :
                    patients'[i] = IF patients[i].id = id
                                   THEN [patients[i] EXCEPT !.activeRhythm = r]
                                   ELSE patients[i]
              /\ target \in RHYTHM_PARAMS[r].hrMin .. RHYTHM_PARAMS[r].hrMax
              /\ simulationDataMap' =
                    [simulationDataMap EXCEPT ![id].currentTargetHeartRate = target]
              /\ \A draw \in Draws :
                    LET next == vitalsTickPatient(after, findPatient(patients', id)[1],
                                    now + SIMULATION_VITALS_INTERVAL_MS, draw,
                                    nextUid).metrics.heartRate
                    IN IF after.metrics.heartRate = target THEN next = target
                       ELSE Abs(target - next) < Abs(target - after.metrics.heartRate) ]_vars

\* C16 witness: the rhythm of a patient in NSR was set to sinus bradycardia
\* while the countdown of an NSR beat was running, and a vitals tick has moved
\* the displayed heart rate below the NSR range, toward the new target.
C16_Witness ==
    /\ lastOp.op = "vitalsTick"
    /\ timerPatients = patients
    /\ \E patientId \in DOMAIN simulationDataMap \cap registryIds(patients) :
          LET sim == simulationDataMap[patientId]
          IN /\ registered(patientId).activeRhythm = "SINUS_BRADYCARDIA"
             /\ sim.currentTargetHeartRate = RHYTHM_PARAMS.SINUS_BRADYCARDIA.hrMin
             /\ sim.metrics.heartRate < RHYTHM_PARAMS.NSR.hrMin
             /\ sim.metrics.heartRate > sim.currentTargetHeartRate
             /\ sim.nextRRIntervalPoints.d = RHYTHM_PARAMS.NSR.hrMin
             /\ sim.nextRRIntervalPoints.n > 0

\* C17: for a patient in asystole with the pacer off and the lead on, the call
\* of setPatientRhythm leaves the target rate 0; an ECG tick at which a beat is
\* due sets the target to 0 and the countdown to never; a countdown that is
\* never stays never and loads no pattern; a tick with no pattern in progress
\* emits an ECG sample of 0.
C17_AsystoleSchedulesNoBeat ==
    [][ /\ (lastOp'.op = "setPatientRhythm" /\ lastOp'.args = <<"ASYSTOLE">>
            /\ lastOp'.id \in DOMAIN simulationDataMap)
           => simulationDataMap'[lastOp'.id].currentTargetHeartRate = 0
        /\ (lastOp'.op = "ecgTick" /\ timerPatients = patients)
           => \A patientId \in DOMAIN simulationDataMap \cap registryIds(patients) :
                LET p == registered(patientId)
                    sim == simulationDataMap[patientId]
                    after == simulationDataMap'[patientId]
                    never == sim.nextRRIntervalPoints.d = 0
                    due == ~never /\ sim.nextRRIntervalPoints.n <= 0
                IN (p.activeRhythm = "ASYSTOLE" /\ p.pacerSettings.mode = "Off"
                    /\ ~sim.isLeadOff)
                   => /\ due => /\ after.currentTargetHeartRate = 0
                                /\ after.nextRRIntervalPoints.d = 0
                      /\ never => /\ after.nextRRIntervalPoints.d = 0
                                  /\ after.lastBeatTimestamp = sim.lastBeatTimestamp
                                  /\ sim.ecgBufferIndex = 0 => after.ecgPatternBuffer = <<>>
                      /\ sim.ecgBufferIndex = 0
                            => after.ecgData[MAX_ECG_DATA_POINTS].value = 0 ]_vars

\* C17 witness: a patient whose NSR beat is on the trace was put in asystole;
\* the beat that came due has set the countdown to never and the samples
\* emitted since are 0.
C17_Witness ==
    /\ lastOp.op = "ecgTick"
    /\ timerPatients = patients
    /\ \E patientId \in DOMAIN simulationDataMap \cap registryIds(patients) :
          LET sim == simulationDataMap[patientId]
          IN /\ registered(patientId).activeRhythm = "ASYSTOLE"
             /\ sim.nextRRIntervalPoints = Infinity
             /\ sim.currentTargetHeartRate = 0
             /\ \E i \in 1..MAX_ECG_DATA_POINTS : sim.ecgData[i].value = 150
             /\ sim.ecgData[MAX_ECG_DATA_POINTS - 1].value = 0
             /\ sim.ecgData[MAX_ECG_DATA_POINTS].value = 0
             /\ sim.ecgCurrentTime > Len(ECG_BASE_PATTERN) + 1

\* The six (metric, severity, direction) the alert engine evaluates.
EvaluatedConditions ==
    {"Heart Rate", "SpO2"} \X {"critical", "warning"} \X {"low", "high"}
        \ {<<"SpO2", "critical", "high">>, <<"SpO2", "warning", "high">>}

\* The personalized override of a condition, Undefined when there is none.
overrideOf(patient, c) ==
    LET pt == IF c[1] = "Heart Rate" THEN patient.personalizedThresholds.heartRate
              ELSE patient.personalizedThresholds.spo2
    IN CASE c[2] = "critical" /\ c[3] = "low" -> pt.lowCritical
         [] c[2] = "warning" /\ c[3] = "low" -> pt.lowWarning
         [] c[2] = "warning" /\ c[3] = "high" -> pt.highWarning
         [] c[2] = "critical" /\ c[3] = "high" -> pt.highCritical

\* The global default of a condition.
defaultOf(c) ==
    LET gt == IF c[1] = "Heart Rate" THEN ALERT_THRESHOLDS.HEART_RATE ELSE ALERT_THRESHOLDS.SPO2
    IN CASE c[2] = "critical" /\ c[3] = "low" -> gt.LOW_CRITICAL
         [] c[2] = "warning" /\ c[3] = "low" -> gt.LOW_WARNING
         [] c[2] = "warning" /\ c[3] = "high" -> gt.HIGH_WARNING
         [] c[2] = "critical" /\ c[3] = "high" -> gt.HIGH_CRITICAL

\* The condition holds for the metrics: the value is beyond the override when
\* there is one, beyond the default otherwise.
conditionTriggered(metrics, patient, c) ==
    LET value == IF c[1] = "Heart Rate" THEN metrics.heartRate ELSE metrics.spo2
        threshold == IF overrideOf(patient, c) # Undefined THEN overrideOf(patient, c)
                     ELSE defaultOf(c)
    IN IF c[3] = "low" THEN value < threshold ELSE value > threshold

\* An alert '<metric> <Low|High>: <value>' of the condition's severity is active.
conditionAlertActive(simData, c) ==
    LET value == IF c[1] = "Heart Rate" THEN simData.metrics.heartRate ELSE simData.metrics.spo2
    IN \E i \in 1..Len(simData.alerts) :
          /\ simData.alerts[i].message = <<c[1], IF c[3] = "low" THEN "Low" ELSE "High", value>>
          /\ simData.alerts[i].severity = c[2]

\* C18: at the end of a vitals tick, for each of the six conditions evaluated,
\* an alert '<metric> <Low|High>: <value>' of the condition's severity is active
\* when the value is beyond the threshold (the personalized override when there
\* is one, the global default otherwise); the tick adds an alert only for a
\* condition that is triggered.
C18_ThresholdEvaluation ==
    [][ (lastOp'.op = "vitalsTick" /\ timerPatients = patients)
        => \A patientId \in DOMAIN simulationDataMap \cap registryIds(patients) :
             LET before == simulationDataMap[patientId]
                 after == simulationDataMap'[patientId]
                 p == registered(patientId)
             IN /\ \A c \in EvaluatedConditions :
                      conditionTriggered(after.metrics, p, c) => conditionAlertActive(after, c)
                /\ SubSeq(after.alerts, 1, Len(before.alerts)) = before.alerts
                /\ \A i \in (Len(before.alerts) + 1)..Len(after.alerts) :
                      \E c \in EvaluatedConditions :
                         /\ conditionTriggered(after.metrics, p, c)
                         /\ after.alerts[i].metric = c[1]
                         /\ after.alerts[i].severity = c[2]
                         /\ after.alerts[i].message[2] = (IF c[3] = "low" THEN "Low" ELSE "High") ]_vars

\* C18 witness: a patient with the low-critical heart-rate override 55 and no
\* other override has the heart rate 54 after a vitals tick, and the critical
\* alert 'Heart Rate Low: 54' is active.
C18_Witness ==
    /\ lastOp.op = "vitalsTick"
    /\ timerPatients = patients
    /\ \E patientId \in DOMAIN simulationDataMap \cap registryIds(patients) :
          LET sim == simulationDataMap[patientId]
          IN /\ registered(patientId).personalizedThresholds.heartRate.lowCritical = 55
             /\ sim.metrics.heartRate = 54
             /\ conditionAlertActive(sim, <<"Heart Rate", "critical", "low">>)
             /\ ~conditionAlertActive(sim, <<"Heart Rate", "warning", "low">>)


\* The patients the registry is seeded with.
seededIds == { INITIAL_PATIENTS[i].id : i \in 1..Len(INITIAL_PATIENTS) }

\* C21: a patient added with addPatient is advanced by the very next
\* high-frequency tick (its state is still present and its sample counter went
\* from 0 to 1) and by the very next low-frequency tick (its state is still
\* present and its vitals were evaluated and logged for the first time),
\* whether the tick comes before or after the timers are re-established.
C21_NextTicksAdvanceNewPatient ==
    [][ \A patientId \in (DOMAIN simulationDataMap \cap registryIds(patients)) \ seededIds :
           LET before == simulationDataMap[patientId]
           IN /\ (lastOp'.op = "ecgTick" /\ before.ecgCurrentTime = 0)
                 => /\ patientId \in DOMAIN simulationDataMap'
                    /\ simulationDataMap'[patientId].ecgCurrentTime = 1
              /\ (lastOp'.op = "vitalsTick" /\ before.loggedVitals = <<>>)
                 => /\ patientId \in DOMAIN simulationDataMap'
                    /\ Len(simulationDataMap'[patientId].loggedVitals) = 1 ]_vars


isPrefix(s, t) == Len(s) <= Len(t) /\ SubSeq(t, 1, Len(s)) = s

\* C22: the alarm-feedback log of a patient only grows: across every step (a
\* tick, an operation, the launch or the completion callback of an analysis)
\* the log a live patient had before the step is a prefix of the log it has
\* after the step.
C22_FeedbackLogIsAppendOnly ==
    [][ \A patientId \in DOMAIN simulationDataMap \cap DOMAIN simulationDataMap' :
           (findPatient(patients, patientId) # <<>> /\ findPatient(patients', patientId) # <<>>)
           => isPrefix(simulationDataMap[patientId].alarmFeedbackLog,
                       simulationDataMap'[patientId].alarmFeedbackLog) ]_vars


\* C23: the vitals log never holds more than 200 entries; a vitals tick appends
\* an entry stamped with the time of the tick exactly when the log is empty or
\* its newest entry is more than 60 s old, and leaves the log alone otherwise;
\* an append to a log of 200 entries drops the oldest entry and keeps the
\* others in order.
C23_VitalsLogIsCapped ==
    [][ /\ \A patientId \in DOMAIN simulationDataMap' :
              Len(simulationDataMap'[patientId].loggedVitals) <= MAX_LOGGED_VITALS
        /\ (lastOp'.op = "vitalsTick" /\ timerPatients = patients)
           => \A patientId \in DOMAIN simulationDataMap \cap registryIds(patients) :
                LET log == simulationDataMap[patientId].loggedVitals
                    after == simulationDataMap'[patientId].loggedVitals
                    due == \/ log = <<>>
                           \/ now - log[Len(log)].timestamp
                                 > AUTO_LOG_VITALS_INTERVAL_SECONDS * 1000
                    kept == IF Len(log) = MAX_LOGGED_VITALS THEN Tail(log) ELSE log
                IN IF due
                   THEN /\ Len(after) = Len(kept) + 1
                        /\ SubSeq(after, 1, Len(kept)) = kept
                        /\ after[Len(after)] =
                              [timestamp |-> now,
                               metrics |-> simulationDataMap'[patientId].metrics]
                   ELSE after = log ]_vars

\* C23 witness: a vitals tick appended to a log of 200 entries: the log still
\* has 200 entries, the oldest stored entry is gone, the others follow in
\* order and the newest entry is the one of the tick.
C23_Witness ==
    /\ lastOp.op = "vitalsTick"
    /\ timerPatients = patients
    /\ storage.present
    /\ \E patientId \in DOMAIN simulationDataMap \cap registryIds(patients) :
          LET log == simulationDataMap[patientId].loggedVitals
              stored == fullLog(log[1].metrics)
          IN /\ Len(log) = MAX_LOGGED_VITALS
             /\ log[Len(log)].timestamp = now
             /\ SubSeq(log, 1, Len(log) - 1) = Tail(stored)


\* C24: a paced beat (the pacer spike followed by the paced QRS is loaded by a
\* high-frequency tick) is emitted only for a patient whose pacer mode is
\* Demand and whose active rhythm has an intrinsic rate below the pacer rate:
\* when every rate the rhythm generates is at or above the pacer rate, or the
\* pacer is Off, no paced beat is emitted, whatever the displayed heart rate.
C24_PacedOnlyWhenNeeded ==
    [][ (lastOp'.op = "ecgTick" /\ timerPatients = patients)
        => \A patientId \in DOMAIN simulationDataMap \cap registryIds(patients) :
             LET before == simulationDataMap[patientId]
                 after == simulationDataMap'[patientId]
                 p == registered(patientId)
             IN (/\ ~before.isLeadOff
                 /\ before.ecgBufferIndex = 0
                 /\ after.ecgPatternBuffer = pacedPattern)
                => /\ p.pacerSettings.mode = "Demand"
                   /\ RHYTHM_PARAMS[p.activeRhythm].hrMin < p.pacerSettings.rate ]_vars


\* C25: while the lead of a patient is off and a high-frequency tick has forced
\* its displayed heart rate to 0, no later tick of either loop leaves the
\* displayed heart rate non-zero as long as the lead stays off.
C25_LeadOffKeepsHeartRateZero ==
    [][ (lastOp'.op \in {"ecgTick", "vitalsTick"} /\ timerPatients = patients)
        => \A patientId \in DOMAIN simulationDataMap \cap registryIds(patients) :
             LET before == simulationDataMap[patientId]
                 after == simulationDataMap'[patientId]
             IN (before.isLeadOff /\ before.metrics.heartRate = 0 /\ after.isLeadOff)
                => after.metrics.heartRate = 0 ]_vars


\* C26: in third-degree AV block the P-waves have their own schedule: at a
\* high-frequency tick of a patient whose lead is on, with no pattern in
\* progress and a P-wave due (more than 60000 / atrialRate ms since the last
\* one), the tick starts the isolated P-wave pattern; only when a ventricular
\* beat is due at the same tick may the P-wave wait, and then it stays due (the
\* beat neither suppresses nor replaces it).
C26_PWavesOnTheirOwnSchedule ==
    [][ (lastOp'.op = "ecgTick" /\ timerPatients = patients)
        => \A patientId \in DOMAIN simulationDataMap \cap registryIds(patients) :
             LET before == simulationDataMap[patientId]
                 after == simulationDataMap'[patientId]
                 p == registered(patientId)
                 pWaveDue == (now - before.lastPWaveTime) * RHYTHM_PARAMS[p.activeRhythm].atrialRate
                                > 60000
             IN (/\ p.activeRhythm = "THIRD_DEGREE_AV_BLOCK"
                 /\ ~before.isLeadOff
                 /\ before.ecgBufferIndex = 0
                 /\ pWaveDue)
                => \/ after.ecgPatternBuffer = ECG_P_WAVE_PATTERN
                   \/ /\ rrNotPositive(before.nextRRIntervalPoints)
                      /\ after.lastPWaveTime = before.lastPWaveTime ]_vars


\* floor(a / b + 1/2) and the least integer at or above n / d, for b, d > 0
roundDiv(a, b) == (2 * a + b) \div (2 * b)
ceilDiv(n, d) == IF n <= 0 THEN 0 - ((0 - n) \div d) ELSE (n + d - 1) \div d

\* C27: when a beat comes due at a high-frequency tick with target rate r > 0,
\* the number of ticks until the next beat is due (this tick included) is
\* round((60 / r) * 40): the countdown is decremented by exactly one on every
\* tick with the lead on and a beat is due when it is at or below 0, so the
\* countdown left after the tick is due again after round(2400 / r) - 1 more
\* ticks.
C27_BeatIntervalIsRounded ==
    [][ (lastOp'.op = "ecgTick" /\ timerPatients = patients)
        => \A patientId \in DOMAIN simulationDataMap \cap registryIds(patients) :
             LET before == simulationDataMap[patientId]
                 after == simulationDataMap'[patientId]
                 r == after.currentTargetHeartRate
                 left == after.nextRRIntervalPoints
             IN ~before.isLeadOff
                => IF rrNotPositive(before.nextRRIntervalPoints)
                   THEN r > 0 => /\ left.d # 0
                                 /\ ceilDiv(left.n, left.d)
                                       = roundDiv(60 * pointsPerSecond, r) - 1
                   ELSE left = rrDecrement(before.nextRRIntervalPoints) ]_vars


\* C28: a low-frequency tick moves the displayed heart rate toward the target
\* heart rate by at most 2 and never past it: the distance to the target
\* shrinks by 2 when it is more than 2, the displayed rate is exactly the
\* target when the distance is at most 2, and it does not change when the two
\* are equal.
C28_HeartRateConverges ==
    [][ (lastOp'.op = "vitalsTick" /\ timerPatients = patients)
        => \A patientId \in DOMAIN simulationDataMap \cap registryIds(patients) :
             LET before == simulationDataMap[patientId]
                 target == before.currentTargetHeartRate
                 hr == before.metrics.heartRate
                 after == simulationDataMap'[patientId].metrics.heartRate
             IN IF Abs(target - hr) <= 2 THEN after = target
                ELSE IF target > hr THEN after = hr + 2
                ELSE after = hr - 2 ]_vars

\* C28 witness: after a vitals tick a patient in sinus bradycardia shows the
\* heart rate 59, its target: the tick found the displayed rate 60 one above
\* the target and set it to the target exactly (or found the two equal and
\* left it there).
C28_Witness ==
    /\ lastOp.op = "vitalsTick"
    /\ timerPatients = patients
    /\ \E patientId \in DOMAIN simulationDataMap \cap registryIds(patients) :
          LET sim == simulationDataMap[patientId]
          IN /\ registered(patientId).activeRhythm = "SINUS_BRADYCARDIA"
             /\ sim.currentTargetHeartRate = 59
             /\ sim.metrics.heartRate = 59


\* C29: after a low-frequency tick of a patient whose active rhythm is lethal
\* the blood pressure is 0/0, the SpO2 is 0 and the respiratory rate is 0,
\* whatever the drift of that tick produced; after a tick of a patient whose
\* rhythm is not lethal, at which the respiratory-rate drift was due, the
\* respiratory rate is within [8, 35].
C29_LethalOverrideAndRespirationClamp ==
    [][ (lastOp'.op = "vitalsTick" /\ timerPatients = patients)
        => \A patientId \in DOMAIN simulationDataMap \cap registryIds(patients) :
             LET before == simulationDataMap[patientId]
                 after == simulationDataMap'[patientId].metrics
             IN IF RHYTHM_PARAMS[registered(patientId).activeRhythm].isLethal
                THEN /\ after.bloodPressure = [systolic |-> 0, diastolic |-> 0]
                     /\ after.spo2 = 0
                     /\ after.respiratoryRate = 0
                ELSE now - before.lastRRUpdate > RR_UPDATE_INTERVAL_MS
                     => after.respiratoryRate \in 8..35 ]_vars

\* C29 witness: a vitals tick zeroed the vitals of a patient in a lethal rhythm
\* (the SpO2 and the blood pressure are still 0), the patient is back in a
\* rhythm that is not lethal, and a later vitals tick, at which the drift was
\* due, found the respiratory rate 0 and left it at the lower clamp 8.
C29_Witness ==
    /\ lastOp.op = "vitalsTick"
    /\ timerPatients = patients
    /\ \E patientId \in DOMAIN simulationDataMap \cap registryIds(patients) :
          LET sim == simulationDataMap[patientId]
          IN /\ sim.lastRRUpdate = now
             /\ ~RHYTHM_PARAMS[registered(patientId).activeRhythm].isLethal
             /\ sim.metrics.respiratoryRate = 8
             /\ sim.metrics.spo2 = 0
             /\ sim.metrics.bloodPressure = [systolic |-> 0, diastolic |-> 0]


\* C30: nothing removes a heart-rate or SpO2 threshold alert from the alerts of
\* a patient: across a high-frequency tick, a low-frequency tick, an
\* acknowledgement, a feedback, a lead toggle and the callbacks of an analysis
\* every threshold alert the patient had is still among its alerts, in the
\* same order; the alerts that disappear are lead-off alerts.
C30_ThresholdAlertsAreNeverCleared ==
    [][ lastOp'.op \in {"ecgTick", "vitalsTick", "acknowledgePatientAlerts", "aiMark",
                        "aiResolve", "provideAlarmFeedback", "toggleEcgLeadOff"}
        => \A patientId \in DOMAIN simulationDataMap \cap registryIds(patients) :
             LET kept == SelectSeq(simulationDataMap[patientId].alerts, isThresholdAlert)
             IN kept # <<>>
                => /\ patientId \in DOMAIN simulationDataMap'
                   /\ isPrefix(kept, SelectSeq(simulationDataMap'[patientId].alerts,
                                               isThresholdAlert)) ]_vars

\* C30 witness: the warning alert 'Heart Rate High: 100' raised for a patient
\* whose high-warning threshold is 99 is still among the alerts after a vitals
\* tick that brought the heart rate back to 98, within the normal range.
C30_Witness ==
    /\ lastOp.op = "vitalsTick"
    /\ \E patientId \in DOMAIN simulationDataMap \cap registryIds(patients) :
          LET sim == simulationDataMap[patientId]
          IN /\ sim.metrics.heartRate = 98
             /\ triggeredConditions(sim.metrics, registered(patientId)) = {}
             /\ \E i \in 1..Len(sim.alerts) :
                   sim.alerts[i].message = <<"Heart Rate", "High", 100>>


\* A high-frequency tick loads the pattern of a beat for this state: the lead
\* is on, no pattern is in progress and the countdown is at or below 0.
beatLoads(sim) ==
    /\ ~sim.isLeadOff
    /\ sim.ecgBufferIndex = 0
    /\ rrNotPositive(sim.nextRRIntervalPoints)

C32_ResolutionMergesIntoCurrentState ==
    [][ (lastOp'.op = "aiResolve" /\ lastOp'.id \in DOMAIN simulationDataMap)
        => LET patientId == lastOp'.id
               ai == simulationDataMap'[patientId].heartSenseAIState
           IN /\ DOMAIN simulationDataMap' = DOMAIN simulationDataMap
              /\ simulationDataMap' =
                    [simulationDataMap EXCEPT ![patientId].heartSenseAIState = ai]
              /\ ~ai.isLoading
              /\ ~ai.error
              /\ ai.lastAnalyzedTimestamp = now ]_vars

\* C32 witness: the one analysis launched (by the only vitals tick so far) has
\* resolved, and the feedback record appended while it was in flight is in
\* the patient's log.
C32_Witness ==
    /\ lastOp.op = "aiResolve"
    /\ aiInFlight = <<>>
    /\ budget.vitals = MaxVitalsTicks - 1
    /\ lastOp.id \in DOMAIN simulationDataMap
    /\ simulationDataMap[lastOp.id].alarmFeedbackLog # <<>>
    /\ ~simulationDataMap[lastOp.id].heartSenseAIState.isLoading


\* A source of beats with a positive rate: the rhythm generates a positive
\* rate, or the pacer is in Demand mode with a positive rate.
positiveRateSource(p) ==
    \/ RHYTHM_PARAMS[p.activeRhythm].hrMin > 0
    \/ p.pacerSettings.mode = "Demand" /\ p.pacerSettings.rate > 0

\* C33: whenever the inter-beat countdown of a registered patient is 'never',
\* its lead is on, a source of beats with a positive rate exists and the ECG
\* interval has a firing left, a beat is scheduled eventually: the countdown
\* becomes finite again.
C33_SchedulingResumes ==
    \A patientId \in {INITIAL_PATIENTS[1].id} :
       (/\ patientId \in DOMAIN simulationDataMap \cap registryIds(patients)
        /\ timerPatients = patients
        /\ budget.ecg > 0
        /\ ~simulationDataMap[patientId].isLeadOff
        /\ simulationDataMap[patientId].nextRRIntervalPoints = Infinity
        /\ positiveRateSource(registered(patientId)))
       ~> (/\ patientId \in DOMAIN simulationDataMap
           /\ simulationDataMap[patientId].nextRRIntervalPoints # Infinity)


\* C34: the step that applies the isLoading mark of a launched analysis changes
\* nothing but heartSenseAIState.isLoading of the patients it marks: every
\* other field of every entry is what it was just before the step, and the
\* step creates no entry.
C34_MarkChangesOnlyIsLoading ==
    [][ lastOp'.op = "aiMark"
        => /\ DOMAIN simulationDataMap' = DOMAIN simulationDataMap
           /\ \A patientId \in DOMAIN simulationDataMap :
                 simulationDataMap'[patientId] =
                    [simulationDataMap[patientId] EXCEPT
                        !.heartSenseAIState.isLoading =
                            simulationDataMap'[patientId].heartSenseAIState.isLoading] ]_vars


leadOffAlerts(simData) == SelectSeq(simData.alerts, LAMBDA a : a.message = LEAD_OFF_MESSAGE)

\* C35: in every state and for every patient, isLeadOff is true exactly when
\* an alert 'ECG Lead Off' is among the patient's alerts, and there is at most
\* one such alert.
C35_LeadOffAlertMatchesLeadState ==
    \A patientId \in DOMAIN simulationDataMap :
       LET sim == simulationDataMap[patientId]
       IN /\ Len(leadOffAlerts(sim)) <= 1
          /\ sim.isLeadOff <=> leadOffAlerts(sim) # <<>>


\* C35 witness: a feedback on the lead-off alert reconnected the lead: its
\* record is in the log, the lead is on and no lead-off alert is left; the
\* ECG interval fired while the lead was off (the heart rate is still 0) and
\* the vitals interval has fired too.
C35_Witness ==
    /\ lastOp.op = "provideAlarmFeedback"
    /\ budget.ecg = 0
    /\ budget.vitals < MaxVitalsTicks
    /\ \E patientId \in DOMAIN simulationDataMap :
          LET sim == simulationDataMap[patientId]
          IN /\ ~sim.isLeadOff
             /\ leadOffAlerts(sim) = <<>>
             /\ sim.metrics.heartRate = 0
             /\ \E k \in 1..Len(sim.alarmFeedbackLog) :
                   sim.alarmFeedbackLog[k].alertSnapshot.message = LEAD_OFF_MESSAGE


\* C36: metrics.spo2 of a patient is written by the lethal-rhythm override of
\* the vitals tick only: a vitals tick of a patient in a lethal rhythm leaves
\* it 0, and every other tick and operation leaves it unchanged, so an SpO2
\* forced to 0 stays 0 after setPatientRhythm returned the patient to a rhythm
\* that is not lethal.
C36_SpO2WrittenOnlyByLethalOverride ==
    [][ \A patientId \in DOMAIN simulationDataMap \cap DOMAIN simulationDataMap' :
           lastOp'.op # "login"
           => LET spo2 == simulationDataMap[patientId].metrics.spo2
                  after == simulationDataMap'[patientId].metrics.spo2
              IN \/ after = spo2
                 \/ /\ lastOp'.op = "vitalsTick"
                    /\ findPatient(timerPatients, patientId) # <<>>
                    /\ RHYTHM_PARAMS[findPatient(timerPatients, patientId)[1].activeRhythm].isLethal
                    /\ after = 0 ]_vars

\* C36 witness: after a vitals tick of a patient in sinus bradycardia the SpO2
\* is still the 0 a lethal rhythm had forced.
C36_Witness ==
    /\ lastOp.op = "vitalsTick"
    /\ timerPatients = patients
    /\ \E patientId \in DOMAIN simulationDataMap \cap registryIds(patients) :
          /\ registered(patientId).activeRhythm = "SINUS_BRADYCARDIA"
          /\ simulationDataMap[patientId].metrics.spo2 = 0
          /\ simulationDataMap[patientId].metrics.respiratoryRate = 0


isLoading(patientId) ==
    /\ patientId \in DOMAIN simulationDataMap
    /\ simulationDataMap[patientId].heartSenseAIState.isLoading

\* C37: isLoading is true for a patient only while an analysis for that patient
\* is in flight, and whenever it is true it becomes false eventually, with
\* lastAnalyzedTimestamp set to the time of the resolution.
C37_AnalysisEventuallyResolves ==
    \A patientId \in {INITIAL_PATIENTS[1].id} :
       /\ [](isLoading(patientId) => analysesInFlight(patientId) # {})
       /\ isLoading(patientId)
             ~> (/\ patientId \in DOMAIN simulationDataMap
                 /\ ~isLoading(patientId)
                 /\ simulationDataMap[patientId].heartSenseAIState.lastAnalyzedTimestamp = now)

\* C37 witness: the isLoading mark of a launched analysis has been applied: the
\* patient is loading and its analysis is in flight.
C37_Witness ==
    /\ lastOp.op = "aiMark"
    /\ \E patientId \in registryIds(patients) :
          /\ isLoading(patientId)
          /\ analysesInFlight(patientId) # {}
          /\ simulationDataMap[patientId].heartSenseAIState.lastAnalyzedTimestamp # now


\* The selection is null or the id of a patient in the registry, and it is
\* null only when the registry is empty.
selectionInRegistry(selected, registry) ==
    /\ selected = NoSelection \/ selected \in registryIds(registry)
    /\ selected = NoSelection => registry = <<>>

\* C38: as long as selectPatient is called with ids of patients in the registry
\* only, selectedPatientId is null or the id of a patient in the registry, and
\* it is null only when the registry is empty: this holds at construction and
\* every login, addPatient, deletePatient and selectPatient with a registered
\* id preserves it.
C38_SelectionStaysInRegistry ==
    [][ (/\ selectionInRegistry(selectedPatientId, patients)
         /\ ~(lastOp'.op = "selectPatient" /\ lastOp'.id \notin registryIds(patients)))
        => selectionInRegistry(selectedPatientId', patients') ]_vars

\* C38 witness: deletePatient removed the selected, only patient of the
\* registry: the registry is empty and the selection is null.
C38_Witness ==
    /\ lastOp.op = "deletePatient"
    /\ lastOp.id # UnknownId
    /\ patients = <<>>
    /\ selectedPatientId = NoSelection


\* C39: a loaded ECG pattern is walked one sample per tick with the lead on,
\* from its first to its last sample: with the cursor non-zero a tick emits the
\* sample under the cursor and advances it, keeps the buffer, and wraps the
\* cursor to 0 with an empty buffer after the last sample; a beat that comes
\* due meanwhile resets the countdown and loads nothing; a tick with the lead
\* off moves neither cursor nor buffer; with the cursor 0 a tick loads the
\* pattern of a beat that is due and emits the baseline otherwise.  In every
\* state the buffer is empty exactly when the cursor is 0.
C39_PatternWalkedOnce ==
    [][ /\ \A patientId \in DOMAIN simulationDataMap' :
              simulationDataMap'[patientId].ecgPatternBuffer = <<>>
                 <=> simulationDataMap'[patientId].ecgBufferIndex = 0
        /\ (lastOp'.op = "ecgTick" /\ timerPatients = patients)
           => \A patientId \in DOMAIN simulationDataMap \cap registryIds(patients) :
                LET before == simulationDataMap[patientId]
                    after == simulationDataMap'[patientId]
                    cursor == before.ecgBufferIndex
                    buffer == before.ecgPatternBuffer
                    emitted == after.ecgData[Len(after.ecgData)].value
                    due == rrNotPositive(before.nextRRIntervalPoints)
                IN IF before.isLeadOff
                   THEN after.ecgBufferIndex = cursor /\ after.ecgPatternBuffer = buffer
                   ELSE IF cursor > 0
                   THEN /\ emitted = buffer[cursor + 1]
                        /\ IF cursor + 1 = Len(buffer)
                           THEN after.ecgBufferIndex = 0 /\ after.ecgPatternBuffer = <<>>
                           ELSE after.ecgBufferIndex = cursor + 1
                                /\ after.ecgPatternBuffer = buffer
                        /\ due => ~rrNotPositive(after.nextRRIntervalPoints)
                   ELSE IF due
                   THEN /\ after.ecgBufferIndex = 1
                        /\ emitted = after.ecgPatternBuffer[1]
                        /\ after.ecgPatternBuffer
                              \in {RHYTHM_PARAMS[registered(patientId).activeRhythm].basePattern,
                                   pacedPattern}
                   ELSE emitted = 0 /\ after.ecgBufferIndex = 0 ]_vars

\* C39 witness: a beat of ventricular tachycardia came due while the cursor was
\* on the 15th sample of the pattern loaded 14 ticks earlier: the tick emitted
\* that sample, kept the pattern and reset the countdown.
C39_Witness ==
    /\ lastOp.op = "ecgTick"
    /\ timerPatients = patients
    /\ \E patientId \in DOMAIN simulationDataMap \cap registryIds(patients) :
          LET sim == simulationDataMap[patientId]
          IN /\ registered(patientId).activeRhythm = "VT"
             /\ sim.ecgPatternBuffer = ECG_VT_PATTERN
             /\ sim.ecgBufferIndex = 15
             /\ sim.ecgData[Len(sim.ecgData)].value = ECG_VT_PATTERN[15]
             /\ sim.nextRRIntervalPoints = rrDecrement(rrIntervalPoints(180))


\* The alerts of a patient that say `message` with `severity`.
alertsSaying(simData, message, severity) ==
    SelectSeq(simData.alerts, LAMBDA a : a.message = message /\ a.severity = severity)

noTwoAlertsAlike(simData) ==
    \A i, j \in 1..Len(simData.alerts) :
        (simData.alerts[i].message = simData.alerts[j].message
         /\ simData.alerts[i].severity = simData.alerts[j].severity) => i = j

\* C40: in every state no two alerts of a patient share message and severity,
\* acknowledged or not; and a tick or operation on a patient who has an alert
\* with some message and severity, acknowledged or not, adds no further alert
\* with that message and severity.
C40_NoTwoAlertsAlike ==
    /\ [](\A patientId \in DOMAIN simulationDataMap :
             noTwoAlertsAlike(simulationDataMap[patientId]))
    /\ [][ \A patientId \in DOMAIN simulationDataMap \cap DOMAIN simulationDataMap' :
              lastOp'.op # "login"
              => LET before == simulationDataMap[patientId]
                     after == simulationDataMap'[patientId]
                 IN \A i \in 1..Len(before.alerts) :
                       Len(alertsSaying(after, before.alerts[i].message,
                                        before.alerts[i].severity)) <= 1 ]_vars

\* C40 witness: a vitals tick found the heart rate above the critical high
\* threshold at the value an acknowledged critical alert already names; the
\* patient still has that one alert with the message and nothing
\* unacknowledged saying the same.
C40_Witness ==
    /\ lastOp.op = "vitalsTick"
    /\ timerPatients = patients
    /\ \E patientId \in DOMAIN simulationDataMap :
          LET sim == simulationDataMap[patientId]
              message == alertMessage("Heart Rate", "high", sim.metrics.heartRate)
              alike == alertsSaying(sim, message, "critical")
          IN /\ sim.metrics.heartRate > ALERT_THRESHOLDS.HEART_RATE.HIGH_CRITICAL
             /\ ~sim.isLeadOff
             /\ Len(alike) = 1
             /\ alike[1].id \in sim.acknowledgedAlertIds

====
